---------------------------- MODULE Spec2Model ----------------------------
(***************************************************************************)
(* A state-machine model of the DatasetIDTagger annotation editor          *)
(* (src/unnamed/part_000, the multi-dataset front end; src/static/app.js   *)
(* is the older single-dataset front end with the same editor core).       *)
(*                                                                         *)
(* The variables are the fields of the global `state` object, the          *)
(* `keysPressed` map, the pieces of the DOM the handlers read and write    *)
(* (overlay, input field, save button), the asynchronous work in flight    *)
(* (image loads, fetches, timers, the animation frame), and the external   *)
(* store the fetches talk to.  Every handler of the source is one action.  *)
(*                                                                         *)
(* Numbers: JavaScript numbers are modelled as exact rationals <<n, d>>    *)
(* (d > 0, lowest terms), with <<1, 0>>, <<-1, 0>> and <<0, 0>> for        *)
(* Infinity, -Infinity and NaN.  The bitmaps, boxes and pointer positions  *)
(* below are chosen so that the comparisons the handlers make (box edges,  *)
(* scale limits) come out the same in double arithmetic as in exact        *)
(* arithmetic.  Indices keep the source's 0-based convention with -1 for   *)
(* "none"; TLA+ sequences are 1-based, so box i of the source is           *)
(* annotations[i + 1].  A string the code trims is the sequence of its     *)
(* UTF-16 code units (numbers): <<97, 32, 98>> is 'a b'.  A value that is  *)
(* a string or null is a record [null, str]: null and '' are different.    *)
(***************************************************************************)
EXTENDS Integers, Sequences, FiniteSets, TLC

(***************************************************************************)
(* Bounds of the model (not program constants).                            *)
(***************************************************************************)
\* loadEditor calls in one run (each starts an image load and a fetch)
MaxLoads == 2
\* saveCurrent calls that send a request in one run
MaxSaves == 2
\* camera changes by pan, drag or zoom in one run
MaxCamOps == 2
\* setTimeout focus timers pending at once
MaxTimers == 1
\* fetchImageList calls in one run
MaxListFetches == 2

(***************************************************************************)
(* Exact rational arithmetic for JavaScript numbers.                       *)
(***************************************************************************)
RECURSIVE GCD(_, _)
GCD(a, b) == IF b = 0 THEN a ELSE GCD(b, a % b)

Abs(i) == IF i < 0 THEN -i ELSE i

Sign(i) == IF i < 0 THEN -1 ELSE IF i > 0 THEN 1 ELSE 0

\* n / d in lowest terms; n / 0 is Infinity, -Infinity or (0 / 0) NaN
Norm(n, d) ==
    IF d = 0 THEN <<Sign(n), 0>>
    ELSE LET s == IF d < 0 THEN -1 ELSE 1
             g == GCD(Abs(n), Abs(d))
         IN  <<(s * n) \div g, (s * d) \div g>>

R(i) == <<i, 1>>
NaN == <<0, 0>>
IsNaN(a) == a = NaN
\* Number.isFinite
Finite(a) == a[2] # 0
\* the place of a value among -Infinity, the finite numbers and Infinity
Ext(a) == IF Finite(a) THEN 0 ELSE a[1]
RNeg(a) == <<-a[1], a[2]>>
RAdd(a, b) ==
    IF IsNaN(a) \/ IsNaN(b) THEN NaN
    ELSE IF ~Finite(a) THEN (IF ~Finite(b) /\ b # a THEN NaN ELSE a)
    ELSE IF ~Finite(b) THEN b
    ELSE Norm(a[1] * b[2] + b[1] * a[2], a[2] * b[2])
RSub(a, b) == RAdd(a, RNeg(b))
RMul(a, b) == Norm(a[1] * b[1], a[2] * b[2])
\* 1 / b (the zeros of the model are positive zeros)
RInv(b) ==
    IF IsNaN(b) THEN NaN
    ELSE IF ~Finite(b) THEN R(0)
    ELSE Norm(b[2], b[1])
RDiv(a, b) == RMul(a, RInv(b))
\* <= and <: false when an operand is NaN
RLe(a, b) ==
    IF IsNaN(a) \/ IsNaN(b) THEN FALSE
    ELSE IF Finite(a) /\ Finite(b) THEN a[1] * b[2] <= b[1] * a[2]
    ELSE Ext(a) <= Ext(b)
RLt(a, b) ==
    IF IsNaN(a) \/ IsNaN(b) THEN FALSE
    ELSE IF Finite(a) /\ Finite(b) THEN a[1] * b[2] < b[1] * a[2]
    ELSE Ext(a) < Ext(b)
\* Math.min, Math.max: NaN when an operand is NaN
RMin(a, b) == IF IsNaN(a) \/ IsNaN(b) THEN NaN ELSE IF RLe(a, b) THEN a ELSE b
RMax(a, b) == IF IsNaN(a) \/ IsNaN(b) THEN NaN ELSE IF RLe(a, b) THEN b ELSE a

(***************************************************************************)
(* The external store (Persistence Bridge) and the page layout: the data   *)
(* the handlers are run on.                                                *)
(***************************************************************************)
Files == {"A", "B", "C"}
Splits == {"train", "val"}

\* the files of a split, in the order listImages reports them
SplitFiles(split) == IF split = "train" THEN <<"A", "B", "C">> ELSE <<"B">>

\* natural size of each bitmap (img.width, img.height); in an 800 x 600
\* canvas they fit at scale 1, 9 and 0.05625
ImgW(f) == CASE f = "A" -> 720 [] f = "B" -> 80 [] OTHER -> 11520
ImgH(f) == CASE f = "A" -> 540 [] f = "B" -> 60 [] OTHER -> 8640

\* the client sizes the canvas container is laid out at while #app is shown
ContainerSizes == { <<800, 600>>, <<400, 300>> }
\* the size selectBox takes the identity-edit overlay to have
OverlayW == 150
OverlayH == 60

\* box.cow_id = null
NullId == [null |-> TRUE, str |-> <<>>]
\* box.cow_id = the string of code units s
Str(s) == [null |-> FALSE, str |-> s]

\* the identity the stored documents and the typed texts use: U+0085 (next
\* line), a space, e acute, U+200B (zero width space).  trim keeps it whole:
\* neither U+0085 nor U+200B is white space to it.
CowName == <<133, 32, 233, 8203>>
Box(xc, yc, w, h, id, st) == [yolo |-> <<xc, yc, w, h>>, cow_id |-> id, status |-> st]

\* The documents the store holds before any save.  A: three boxes at
\* x-centers 0.8, 0.2, 0.5 (x-ranges 0.65..0.95, 0.1..0.3, 0.2..0.8), the
\* third overlapping the other two; B: one box; C: no box.
InitialDoc(f) ==
    CASE f = "A" ->
           [filename |-> "A",
            annotations |->
              << Box(<<4, 5>>, <<1, 2>>, <<3, 10>>, <<2, 5>>, NullId, "unknown"),
                 Box(<<1, 5>>, <<1, 2>>, <<1, 5>>, <<2, 5>>, Str(CowName), "labeled"),
                 Box(<<1, 2>>, <<1, 2>>, <<3, 5>>, <<1, 5>>, NullId, "unknown") >>]
      [] f = "B" ->
           [filename |-> "B",
            annotations |->
              << Box(<<1, 2>>, <<1, 2>>, <<1, 2>>, <<1, 2>>, NullId, "unknown") >>]
      [] OTHER -> [filename |-> "C", annotations |-> <<>>]

\* state.annotationData = null
NullDoc == [filename |-> "null", annotations |-> <<>>]
\* state.imgObj = null
NullImg == "null"

\* pointer positions (clientX, clientY) the mouse events are delivered at
\* (none of them on the toolbar); with bitmap A fitted, (184, 300) is on the left edge of box 2 and inside
\* box 1
Points == { <<184, 300>>, <<400, 300>>, <<130, 300>>, <<10, 10>> }
\* the positions the wheel is turned at.  A point on a box edge is left out:
\* the zoom keeps it on the edge in exact arithmetic, while the rounding of
\* the code's doubles decides on which side of the edge it ends.
WheelPoints == { <<400, 300>>, <<130, 300>>, <<10, 10>> }

\* texts a user can leave in the identity field: none, white space only, the
\* identity, and the identity between white space; together they hold each of
\* the 25 code units trim strips
EditTexts ==
    { <<>>,
      <<32, 9, 10, 11, 12, 13>>,
      CowName,
      <<160, 5760, 65279>> \o CowName \o <<12288, 8232, 8233>> }
TabTexts ==
    { <<8192, 8193, 8194, 8195, 8196, 8197>>,
      <<8198, 8199, 8200>> \o CowName \o <<8201, 8202, 8239, 8287>> }
Texts == EditTexts \cup TabTexts

VARIABLES
    \* --- the `state` object
    currentDataset,     \* "null" or the dataset's name
    currentSplit,
    imageList,          \* sequence of ImageListEntry
    currentImageIndex,  \* 0-based, -1 none
    imgObj,             \* NullImg or the file whose bitmap is held
    annotationData,     \* NullDoc or [filename, annotations]
    scale, offsetX, offsetY,
    isDragging, lastMouseX, lastMouseY,
    hoveredBoxIndex, selectedBoxIndex,
    \* --- keysPressed (the keys mapped to true) and the keys physically down
    keysPressed, held,
    \* --- DOM
    appDisplay,         \* #app style.display
    inputBoxDisplay,    \* #id-input-box style.display
    inputLeft, inputTop,
    inputValue,         \* #cow-id-input value
    inputFocused,       \* document.activeElement is #cow-id-input
    btnText,            \* button.primary innerText
    redraws,            \* canvas redraws the handler that ran last performed
    \* --- asynchronous work in flight
    imgLoads,           \* Image objects whose load is pending
    annotFetches,       \* loadEditor continuations awaiting the annotation
    listFetches,        \* fetchImageList continuations awaiting the list
    saves,              \* saveCurrent continuations awaiting the response
    focusTimers,        \* pending setTimeout(focus, 10) of selectBox
    btnTimers,          \* pending setTimeout(restore label, 1000)
    loopScheduled,      \* requestAnimationFrame(updateLoop) is pending
    \* --- the external store
    srvDocs, srvSaved,
    \* --- bookkeeping of the bounds
    reqSeq,             \* requests started so far: [loads, saves, lists]
    camOps,             \* pan, drag and zoom steps so far
    \* --- layout
    canvasW, canvasH,   \* canvas.width, canvas.height
    layoutW, layoutH,   \* the container's client size while #app is displayed
    galleryShown        \* #image-list holds the thumbnails of imageList

navVars  == <<currentDataset, currentSplit, imageList, currentImageIndex, appDisplay>>
docVars  == <<imgObj, annotationData>>
camVars  == <<scale, offsetX, offsetY, camOps>>
dragVars == <<isDragging, lastMouseX, lastMouseY>>
ovlVars  == <<inputBoxDisplay, inputLeft, inputTop, inputValue, inputFocused, focusTimers>>
keyVars  == <<keysPressed, held>>
saveVars == <<btnText, saves, btnTimers>>
netVars  == <<imgLoads, annotFetches, listFetches, reqSeq>>
srvVars  == <<srvDocs, srvSaved>>
sizeVars == <<canvasW, canvasH, layoutW, layoutH>>

\* container.clientWidth, container.clientHeight: the container lies in #app,
\* and an element that is not displayed has no size
ClientWidth(disp) == IF disp = "none" THEN 0 ELSE layoutW
ClientHeight(disp) == IF disp = "none" THEN 0 ELSE layoutH

\* container.getBoundingClientRect(): the container the canvas fills, at the
\* viewport's origin
ContainerRect ==
    [left |-> 0, top |-> 0,
     width |-> ClientWidth(appDisplay), height |-> ClientHeight(appDisplay)]

\* client point p lies on the displayed container: the listeners registered
\* on the container receive the mouse events delivered there
InContainer(p) ==
    /\ appDisplay = "flex"
    /\ p[1] >= ContainerRect.left /\ p[1] < ContainerRect.left + ContainerRect.width
    /\ p[2] >= ContainerRect.top /\ p[2] < ContainerRect.top + ContainerRect.height

\* client point p lies on the identity-edit overlay, a child of the container
\* shown at (inputLeft, inputTop) in it: the event's target is then inside
\* #id-input-box
OverOverlay(p) ==
    /\ inputBoxDisplay = "block"
    /\ RLe(inputLeft, R(p[1] - ContainerRect.left))
    /\ RLt(R(p[1] - ContainerRect.left), RAdd(inputLeft, R(OverlayW)))
    /\ RLe(inputTop, R(p[2] - ContainerRect.top))
    /\ RLt(R(p[2] - ContainerRect.top), RAdd(inputTop, R(OverlayH)))

vars == <<navVars, docVars, camVars, dragVars, hoveredBoxIndex, selectedBoxIndex,
          ovlVars, keyVars, saveVars, netVars, srvVars, redraws, loopScheduled, sizeVars, galleryShown>>


(***************************************************************************)
(* Pure helpers of the handlers.                                           *)
(***************************************************************************)
HasDoc(doc) == doc # NullDoc
HasImg(img) == img # NullImg

\* the redraws of a handler that calls renderCanvas n times with `img` held:
\* renderCanvas returns early without an image
Rendered(img, n) == IF HasImg(img) THEN n ELSE 0

\* fitImageToScreen: the scale and offsets it sets for bitmap f
FitScale(f) ==
    RMul(RMin(RDiv(R(canvasW), R(ImgW(f))), RDiv(R(canvasH), R(ImgH(f)))), <<9, 10>>)
FitOffsetX(f) == RDiv(RSub(R(canvasW), RMul(R(ImgW(f)), FitScale(f))), R(2))
FitOffsetY(f) == RDiv(RSub(R(canvasH), RMul(R(ImgH(f)), FitScale(f))), R(2))

\* the box rectangle test of handleMouseMove, in image space (edges included)
BoxContains(box, iw, ih, imgX, imgY) ==
    LET xc == box.yolo[1]  yc == box.yolo[2]  w == box.yolo[3]  h == box.yolo[4]
        x1 == RMul(RSub(xc, RDiv(w, R(2))), R(iw))
        y1 == RMul(RSub(yc, RDiv(h, R(2))), R(ih))
        x2 == RAdd(x1, RMul(w, R(iw)))
        y2 == RAdd(y1, RMul(h, R(ih)))
    IN  RLe(x1, imgX) /\ RLe(imgX, x2) /\ RLe(y1, imgY) /\ RLe(imgY, y2)

\* a loop from the first box up: the lowest index up to i that contains
ScanBoxesFromFirst(annots, i, iw, ih, imgX, imgY) ==
    LET hit == {k \in 0..i : BoxContains(annots[k + 1], iw, ih, imgX, imgY)}
    IN  IF hit = {} THEN -1 ELSE CHOOSE k \in hit : \A m \in hit : k <= m

\* the loop of handleMouseMove: from the last box down, the first that contains
RECURSIVE ScanBoxes(_, _, _, _, _, _)
ScanBoxes(annots, i, iw, ih, imgX, imgY) ==
    IF i < 0 THEN -1
    ELSE IF BoxContains(annots[i + 1], iw, ih, imgX, imgY) THEN i
    ELSE ScanBoxes(annots, i - 1, iw, ih, imgX, imgY)

\* `found` of handleMouseMove for canvas point (mx, my)
HitTest(mx, my, img, doc, sc, ox, oy) ==
    LET imgX == RDiv(RSub(R(mx), ox), sc)
        imgY == RDiv(RSub(R(my), oy), sc)
    IN  IF HasDoc(doc)
        THEN ScanBoxes(doc.annotations, Len(doc.annotations) - 1,
                       ImgW(img), ImgH(img), imgX, imgY)
        ELSE -1

\* the code units String.prototype.trim strips, the WhiteSpace and
\* LineTerminator productions of ECMAScript: tab, vertical tab, form feed and
\* U+FEFF; the space separators (space, no-break space, ogham space mark, en
\* quad to hair space, narrow no-break space, medium mathematical space,
\* ideographic space); line feed, carriage return, line separator and
\* paragraph separator
WhiteSpace ==
    {9, 11, 12, 65279}
    \cup {32, 160, 5760} \cup (8192..8202) \cup {8239, 8287, 12288}
    \cup {10, 13, 8232, 8233}

\* String.prototype.trim on a sequence of code units
RECURSIVE TrimLeft(_)
TrimLeft(s) == IF s # <<>> /\ Head(s) \in WhiteSpace THEN TrimLeft(Tail(s)) ELSE s
RECURSIVE TrimRight(_)
TrimRight(s) ==
    IF s # <<>> /\ s[Len(s)] \in WhiteSpace
    THEN TrimRight(SubSeq(s, 1, Len(s) - 1))
    ELSE s
\* a trim of the leading blanks only
TrimLeftOnly(s) == TrimLeft(s)
Trim(s) == TrimRight(TrimLeft(s))

\* a confirmID whose empty branch clears the identity and leaves the status
ConfirmedBoxKeepsStatus(box, val) ==
    IF val # <<>>
    THEN [box EXCEPT !.cow_id = Str(val), !.status = "labeled"]
    ELSE [box EXCEPT !.cow_id = NullId]

\* the box confirmID writes for trimmed value val
ConfirmedBox(box, val) ==
    IF val # <<>>
    THEN [box EXCEPT !.cow_id = Str(val), !.status = "labeled"]
    ELSE [box EXCEPT !.cow_id = NullId, !.status = "unknown"]

\* the document after confirmID with box `sel` selected and `value` in the field
ConfirmedDoc(doc, sel, value) ==
    [doc EXCEPT !.annotations[sel + 1] = ConfirmedBox(@, Trim(value))]

\* annotations[index] exists (otherwise reading its field throws a TypeError)
BoxExists(doc, index) ==
    HasDoc(doc) /\ index >= 0 /\ index < Len(doc.annotations)

\* Array.prototype.sort by x-center (stable): insertion into a sorted list
RECURSIVE InsertByX(_, _, _)
InsertByX(sorted, annots, i) ==
    IF sorted = <<>> THEN <<i>>
    ELSE IF RLt(annots[i + 1].yolo[1], annots[Head(sorted) + 1].yolo[1])
         THEN <<i>> \o sorted
         ELSE <<Head(sorted)>> \o InsertByX(Tail(sorted), annots, i)
RECURSIVE SortFrom(_, _)
SortFrom(annots, i) ==
    IF i < 0 THEN <<>> ELSE InsertByX(SortFrom(annots, i - 1), annots, i)
\* sortedIndices of cycleSelection: original indices, ascending x-center
SortedIndices(annots) == SortFrom(annots, Len(annots) - 1)

\* sortedIndices.findIndex(item => item.index === startIdx), 0-based, -1 if absent
FindIndex(sorted, startIdx) ==
    IF \E k \in 1..Len(sorted) : sorted[k] = startIdx
    THEN (CHOOSE k \in 1..Len(sorted) : sorted[k] = startIdx) - 1
    ELSE -1

\* a cycle that stops at the ends of the order instead of wrapping
CycleTargetNoWrap(doc, direction, startIdx) ==
    LET sorted == SortedIndices(doc.annotations)
        cur == IF startIdx # -1 THEN FindIndex(sorted, startIdx) ELSE -1
        nxt == cur + direction
        w1 == IF nxt >= Len(sorted) THEN Len(sorted) - 1 ELSE nxt
        w2 == IF w1 < 0 THEN 0 ELSE w1
    IN  sorted[w2 + 1]

\* targetRealIndex of cycleSelection (doc has at least one box)
CycleTarget(doc, direction, startIdx) ==
    LET sorted == SortedIndices(doc.annotations)
        cur == IF startIdx # -1 THEN FindIndex(sorted, startIdx) ELSE -1
        nxt == cur + direction
        w1 == IF nxt >= Len(sorted) THEN 0 ELSE nxt
        w2 == IF w1 < 0 THEN Len(sorted) - 1 ELSE w1
    IN  sorted[w2 + 1]

\* the synthetic click point cycleSelection passes to selectBox
BoxClientX(box, img, sc, ox) ==
    RAdd(R(ContainerRect.left), RAdd(RMul(RMul(box.yolo[1], R(ImgW(img))), sc), ox))
BoxClientY(box, img, sc, oy) ==
    RAdd(R(ContainerRect.top), RAdd(RMul(RMul(box.yolo[2], R(ImgH(img))), sc), oy))

\* left/top of the overlay as selectBox places it for click point (cx, cy)
OverlayLeft(cx) ==
    LET left == RAdd(RSub(cx, R(ContainerRect.left)), R(20))
    IN  IF RLt(R(ContainerRect.width), RAdd(left, R(OverlayW)))
        THEN RSub(RSub(cx, R(ContainerRect.left)), R(OverlayW))
        ELSE left
OverlayTop(cy) ==
    LET top == RSub(cy, R(ContainerRect.top))
    IN  IF RLt(R(ContainerRect.height), RAdd(top, R(OverlayH)))
        THEN RSub(RSub(cy, R(ContainerRect.top)), R(OverlayH))
        ELSE top

\* style.left = v + 'px', style.top = v + 'px', `old` being the property's
\* value: a declaration that is no length ('NaNpx', '-Infinitypx') is dropped
StyleLength(v, old) == IF Finite(v) THEN v ELSE old

\* the status saveCurrent derives from a document's boxes
Labeled(annots) == SelectSeq(annots, LAMBDA a : a.status = "labeled")
\* a derivation without the test for an empty document
DerivedStatusNoEmptyTest(annots) ==
    IF Len(Labeled(annots)) = Len(annots) THEN "completed"
    ELSE IF Len(Labeled(annots)) > 0 THEN "in_progress"
    ELSE "touched"
DerivedStatus(annots) ==
    IF Len(Labeled(annots)) = Len(annots) /\ Len(annots) > 0 THEN "completed"
    ELSE IF Len(Labeled(annots)) > 0 THEN "in_progress"
    ELSE "touched"
LabeledIds(annots) == [k \in 1..Len(Labeled(annots)) |-> Labeled(annots)[k].cow_id]

\* the list entry after saveCurrent's local recompute from `annots`
RecomputedEntry(item, annots) ==
    [item EXCEPT !.labeled_ids = LabeledIds(annots),
                 !.total_boxes = Len(annots),
                 !.status = DerivedStatus(annots)]

\* listImages: the entry the store reports for file f
ServerEntry(f, docs, saved) ==
    [filename |-> f,
     status |-> IF f \in saved THEN DerivedStatus(docs[f].annotations) ELSE "untouched",
     labeled_ids |-> LabeledIds(docs[f].annotations),
     total_boxes |-> Len(docs[f].annotations)]
ServerList(split, docs, saved) ==
    [k \in 1..Len(SplitFiles(split)) |-> ServerEntry(SplitFiles(split)[k], docs, saved)]

\* the main view is active (the test of updateLoop and handleGlobalKeydown)
MainActive == currentDataset # "null" /\ appDisplay # "none"


(***************************************************************************)
(* The state after init() has run: listeners registered, the frame loop    *)
(* started, the dataset picker shown.  Its handleResize has read the size  *)
(* of the container while #app is not displayed: the canvas is 0 by 0.     *)
(***************************************************************************)
Init ==
    /\ currentDataset = "null"
    /\ currentSplit = "train"
    /\ imageList = <<>>
    /\ currentImageIndex = -1
    /\ imgObj = NullImg
    /\ annotationData = NullDoc
    /\ scale = R(1) /\ offsetX = R(0) /\ offsetY = R(0)
    /\ isDragging = FALSE /\ lastMouseX = 0 /\ lastMouseY = 0
    /\ hoveredBoxIndex = -1 /\ selectedBoxIndex = -1
    /\ keysPressed = {} /\ held = {}
    /\ appDisplay = "none"
    /\ inputBoxDisplay = "none"
    /\ inputLeft = R(0) /\ inputTop = R(0)
    /\ inputValue = <<>>
    /\ inputFocused = FALSE
    /\ btnText = "Save"
    /\ redraws = 0
    /\ imgLoads = {} /\ annotFetches = {} /\ listFetches = {} /\ saves = {}
    /\ focusTimers = 0
    /\ btnTimers = {}
    /\ loopScheduled = TRUE
    /\ srvDocs = [f \in Files |-> InitialDoc(f)]
    /\ srvSaved = {}
    /\ reqSeq = [loads |-> 0, saves |-> 0, lists |-> 0]
    /\ camOps = 0
    /\ layoutW = 800 /\ layoutH = 600
    /\ canvasW = 0 /\ canvasH = 0
    /\ galleryShown = FALSE

(***************************************************************************)
(* Dataset picker and image list.                                          *)
(***************************************************************************)
\* the synchronous part of fetchImageList(split), up to the await: the
\* thumbnails of #image-list are replaced by the "Loading images..." line.
\* Assigns currentSplit, netVars, galleryShown.
FetchImageListStart(split) ==
    /\ reqSeq.lists < MaxListFetches
    /\ currentSplit' = split
    /\ galleryShown' = FALSE
    /\ listFetches' = listFetches \cup {[id |-> reqSeq.lists + 1, split |-> split]}
    /\ reqSeq' = [reqSeq EXCEPT !.lists = @ + 1]
    /\ UNCHANGED <<imgLoads, annotFetches>>

\* loadDataset(name): a card of the picker is clicked; #app is displayed and
\* its handleResize gives the canvas the size the container now has
LoadDataset ==
    /\ appDisplay = "none"
    /\ currentDataset' = "ds"
    /\ appDisplay' = "flex"
    /\ canvasW' = ClientWidth("flex")
    /\ canvasH' = ClientHeight("flex")
    /\ redraws' = Rendered(imgObj, 1)
    /\ FetchImageListStart("train")
    /\ UNCHANGED <<imageList, currentImageIndex, docVars, camVars, dragVars,
                   hoveredBoxIndex, selectedBoxIndex, ovlVars, keyVars, saveVars,
                   srvVars, loopScheduled, layoutW, layoutH>>

\* exitToHome(): #app is hidden, and the identity field in it with the focus
ExitToHome ==
    /\ appDisplay = "flex"
    /\ currentDataset' = "null"
    /\ appDisplay' = "none"
    /\ inputFocused' = FALSE
    /\ UNCHANGED <<currentSplit, imageList, currentImageIndex, docVars, camVars,
                   dragVars, hoveredBoxIndex, selectedBoxIndex, inputBoxDisplay,
                   inputLeft, inputTop, inputValue, focusTimers, keyVars,
                   saveVars, netVars, srvVars, loopScheduled, sizeVars, galleryShown>>
    /\ redraws' = 0

\* switchTab(split): a split tab is clicked (the click takes the field's focus)
SwitchTab(split) ==
    /\ appDisplay = "flex"
    /\ currentDataset # "null"
    /\ FetchImageListStart(split)
    /\ inputFocused' = FALSE
    /\ UNCHANGED <<currentDataset, appDisplay, imageList, currentImageIndex, docVars,
                   camVars, dragVars, hoveredBoxIndex, selectedBoxIndex,
                   inputBoxDisplay, inputLeft, inputTop, inputValue, focusTimers,
                   keyVars, saveVars, srvVars, loopScheduled, sizeVars>>
    /\ redraws' = 0

\* fetchImageList after the await: the list arrives and renderGallery shows it
ListResponse(r) ==
    /\ r \in listFetches
    /\ listFetches' = listFetches \ {r}
    /\ imageList' = ServerList(r.split, srvDocs, srvSaved)
    /\ galleryShown' = TRUE
    /\ UNCHANGED <<currentDataset, currentSplit, currentImageIndex, appDisplay, docVars,
                   camVars, dragVars, hoveredBoxIndex, selectedBoxIndex, ovlVars,
                   keyVars, saveVars, imgLoads, annotFetches, reqSeq, srvVars,
                   loopScheduled, sizeVars>>
    /\ redraws' = 0

\* fetchImageList after the await: the fetch fails (caught and logged)
ListFail(r) ==
    /\ r \in listFetches
    /\ listFetches' = listFetches \ {r}
    /\ UNCHANGED <<navVars, docVars, camVars, dragVars, hoveredBoxIndex,
                   selectedBoxIndex, ovlVars, keyVars, saveVars, imgLoads, annotFetches,
                   reqSeq, srvVars, loopScheduled, sizeVars, galleryShown>>
    /\ redraws' = 0

(***************************************************************************)
(* loadEditor and its two asynchronous completions.                        *)
(***************************************************************************)
\* loadEditor(index) up to the await: returns at once for an index outside
\* the list; otherwise sets the index, renders the gallery, starts the image
\* load and the annotation fetch.  Assigns currentImageIndex, imgLoads,
\* annotFetches, reqSeq, galleryShown.
LoadEditorStart(index) ==
    IF index < 0 \/ index >= Len(imageList)
    THEN UNCHANGED <<currentImageIndex, imgLoads, annotFetches, reqSeq, galleryShown>>
    ELSE /\ reqSeq.loads < MaxLoads
         /\ currentImageIndex' = index
         /\ galleryShown' = TRUE
         /\ LET f == imageList[index + 1].filename
                n == reqSeq.loads + 1
            IN  /\ imgLoads' = imgLoads \cup {[id |-> n, file |-> f]}
                /\ annotFetches' = annotFetches \cup {[id |-> n, file |-> f]}
         /\ reqSeq' = [reqSeq EXCEPT !.loads = @ + 1]

\* a gallery item's onclick: thumbnail `index` exists only while the gallery
\* is rendered; the click takes the field's focus
GalleryClick(index) ==
    /\ appDisplay = "flex"
    /\ galleryShown
    /\ index >= 0 /\ index < Len(imageList)
    /\ LoadEditorStart(index)
    /\ inputFocused' = FALSE
    /\ UNCHANGED <<currentDataset, currentSplit, imageList, appDisplay, docVars, camVars,
                   dragVars, hoveredBoxIndex, selectedBoxIndex, inputBoxDisplay,
                   inputLeft, inputTop, inputValue, focusTimers, keyVars,
                   saveVars, listFetches, srvVars, loopScheduled, sizeVars>>
    /\ redraws' = 0

\* img.onload of the Image created by loadEditor
ImageOnload(r) ==
    /\ r \in imgLoads
    /\ imgLoads' = imgLoads \ {r}
    /\ imgObj' = r.file
    /\ scale' = FitScale(r.file)
    /\ offsetX' = FitOffsetX(r.file)
    /\ offsetY' = FitOffsetY(r.file)
    /\ redraws' = Rendered(r.file, 1)
    /\ UNCHANGED <<navVars, annotationData, camOps, dragVars, hoveredBoxIndex,
                   selectedBoxIndex, ovlVars, keyVars, saveVars, annotFetches,
                   listFetches, reqSeq, srvVars, loopScheduled, sizeVars, galleryShown>>

\* the image fails to load (no onerror handler: nothing happens)
ImageError(r) ==
    /\ r \in imgLoads
    /\ imgLoads' = imgLoads \ {r}
    /\ UNCHANGED <<navVars, docVars, camVars, dragVars, hoveredBoxIndex,
                   selectedBoxIndex, ovlVars, keyVars, saveVars, annotFetches,
                   listFetches, reqSeq, srvVars, loopScheduled, sizeVars, galleryShown>>
    /\ redraws' = 0

\* loadEditor after the await: the annotation document arrives and is installed
AnnotResponse(r) ==
    /\ r \in annotFetches
    /\ annotFetches' = annotFetches \ {r}
    /\ annotationData' = srvDocs[r.file]
    /\ redraws' = Rendered(imgObj, 1)
    /\ UNCHANGED <<navVars, imgObj, camVars, dragVars, hoveredBoxIndex,
                   selectedBoxIndex, ovlVars, keyVars, saveVars, imgLoads, listFetches,
                   reqSeq, srvVars, loopScheduled, sizeVars, galleryShown>>

\* the annotation fetch rejects (an unhandled rejection: nothing is installed)
AnnotFail(r) ==
    /\ r \in annotFetches
    /\ annotFetches' = annotFetches \ {r}
    /\ UNCHANGED <<navVars, docVars, camVars, dragVars, hoveredBoxIndex,
                   selectedBoxIndex, ovlVars, keyVars, saveVars, imgLoads, listFetches,
                   reqSeq, srvVars, loopScheduled, sizeVars, galleryShown>>
    /\ redraws' = 0


(***************************************************************************)
(* Selection and the identity-edit overlay.                                *)
(***************************************************************************)
\* the text selectBox puts into the field, `old` being the text it held:
\* inputField.value = box.cow_id || ''
FieldValue(box, old) ==
    IF ~box.cow_id.null /\ box.cow_id.str # <<>> THEN box.cow_id.str ELSE <<>>

\* the focus of the identity field at the end of a handler, `foc` being its
\* focus when the handler began and `disp` the overlay's display at the end:
\* a field whose overlay is not displayed does not hold the focus
FocusAfter(foc, disp) == foc /\ disp = "block"

\* selectBox(index, clientX, clientY) run on document `doc`, the overlay being
\* `disp` when it is called and `foc` the focus the field had when the
\* handler began.  Reading a box that does not exist throws after the index
\* is set, and the rest is skipped.  Assigns selectedBoxIndex and ovlVars.
SelectBox(index, cx, cy, doc, disp, foc) ==
    /\ selectedBoxIndex' = index
    /\ IF BoxExists(doc, index)
       THEN /\ focusTimers < MaxTimers
            /\ inputValue' = FieldValue(doc.annotations[index + 1], inputValue)
            /\ inputBoxDisplay' = "block"
            /\ inputLeft' = StyleLength(OverlayLeft(cx), inputLeft)
            /\ inputTop' = StyleLength(OverlayTop(cy), inputTop)
            /\ focusTimers' = focusTimers + 1
            /\ inputFocused' = FocusAfter(foc, "block")
       ELSE /\ inputBoxDisplay' = disp
            /\ inputFocused' = FocusAfter(foc, disp)
            /\ UNCHANGED <<inputValue, inputLeft, inputTop, focusTimers>>

\* cycleSelection(direction, startIdx) run on document `doc` after `n` redraws
\* of the same handler, the selection being `sel` and the overlay `disp` when
\* it is called and `foc` the focus the field had when the handler began.
\* Assigns selectedBoxIndex, ovlVars, redraws.
CycleSelection(direction, startIdx, doc, sel, disp, foc, n) ==
    IF HasDoc(doc) /\ Len(doc.annotations) > 0 /\ HasImg(imgObj)
    THEN LET t == CycleTarget(doc, direction, startIdx)
             box == doc.annotations[t + 1]
         IN  /\ SelectBox(t, BoxClientX(box, imgObj, scale, offsetX),
                          BoxClientY(box, imgObj, scale, offsetY), doc, disp, foc)
             /\ redraws' = Rendered(imgObj, n + 1)
    ELSE /\ selectedBoxIndex' = sel
         /\ inputBoxDisplay' = disp
         /\ inputFocused' = FocusAfter(foc, disp)
         /\ redraws' = Rendered(imgObj, n)
         /\ UNCHANGED <<inputValue, inputLeft, inputTop, focusTimers>>

\* the setTimeout of selectBox fires: inputField.focus() (no effect while the
\* overlay, or #app around it, is not displayed)
FocusTimerFire ==
    /\ focusTimers > 0
    /\ focusTimers' = focusTimers - 1
    /\ inputFocused' = (inputFocused \/ (inputBoxDisplay = "block" /\ appDisplay # "none"))
    /\ UNCHANGED <<navVars, docVars, camVars, dragVars, hoveredBoxIndex,
                   selectedBoxIndex, inputBoxDisplay, inputLeft, inputTop, inputValue,
                   keyVars, saveVars, netVars, srvVars, loopScheduled, sizeVars, galleryShown>>
    /\ redraws' = 0

\* the user edits the text of the focused identity field
TypeText(t) ==
    /\ inputFocused
    /\ t \in Texts
    /\ inputValue' = t
    /\ UNCHANGED <<navVars, docVars, camVars, dragVars, hoveredBoxIndex,
                   selectedBoxIndex, inputBoxDisplay, inputLeft, inputTop, inputFocused,
                   focusTimers, keyVars, saveVars, netVars, srvVars,
                   loopScheduled, sizeVars, galleryShown>>
    /\ redraws' = 0

\* editor.confirmID(), `foc` being the field's focus when it is called:
\* nothing when no box is selected; a TypeError, leaving everything as it is,
\* when the selected box does not exist.
\* Assigns annotationData, selectedBoxIndex, inputBoxDisplay, inputFocused, redraws.
ConfirmID(foc) ==
    IF selectedBoxIndex # -1 /\ BoxExists(annotationData, selectedBoxIndex)
    THEN /\ annotationData' = ConfirmedDoc(annotationData, selectedBoxIndex, inputValue)
         /\ inputBoxDisplay' = "none"
         /\ inputFocused' = FALSE
         /\ selectedBoxIndex' = -1
         /\ redraws' = Rendered(imgObj, 1)
    ELSE /\ redraws' = 0
         /\ inputFocused' = foc
         /\ UNCHANGED <<annotationData, inputBoxDisplay, selectedBoxIndex>>

\* editor.cancelID()
CancelID ==
    /\ inputBoxDisplay' = "none"
    /\ inputFocused' = FALSE
    /\ selectedBoxIndex' = -1
    /\ redraws' = Rendered(imgObj, 1)

\* the overlay's confirm control is clicked (the click takes the field's
\* focus); the overlay lies in #app and can be clicked while both are displayed
ConfirmClick ==
    /\ appDisplay = "flex"
    /\ inputBoxDisplay = "block"
    /\ ConfirmID(FALSE)
    /\ UNCHANGED <<navVars, imgObj, camVars, dragVars, hoveredBoxIndex, inputLeft,
                   inputTop, inputValue, focusTimers, keyVars, saveVars, netVars,
                   srvVars, loopScheduled, sizeVars, galleryShown>>

\* the overlay's cancel control is clicked
CancelClick ==
    /\ appDisplay = "flex"
    /\ inputBoxDisplay = "block"
    /\ CancelID
    /\ UNCHANGED <<navVars, docVars, camVars, dragVars, hoveredBoxIndex, inputLeft,
                   inputTop, inputValue, focusTimers, keyVars, saveVars, netVars,
                   srvVars, loopScheduled, sizeVars, galleryShown>>

\* keydown listener of #cow-id-input, key Enter
InputEnter ==
    /\ inputFocused
    /\ held' = held \cup {"Enter"}
    /\ ConfirmID(inputFocused)
    /\ UNCHANGED <<navVars, imgObj, camVars, dragVars, hoveredBoxIndex, inputLeft,
                   inputTop, inputValue, focusTimers, keysPressed, saveVars, netVars,
                   srvVars, loopScheduled, sizeVars, galleryShown>>

\* keydown listener of #cow-id-input, key Escape
InputEscape ==
    /\ inputFocused
    /\ held' = held \cup {"Escape"}
    /\ CancelID
    /\ UNCHANGED <<navVars, docVars, camVars, dragVars, hoveredBoxIndex, inputLeft,
                   inputTop, inputValue, focusTimers, keysPressed, saveVars, netVars,
                   srvVars, loopScheduled, sizeVars, galleryShown>>

\* a Tab handler that cycles from the selection confirmID has left
TabStartAfterConfirm(idx, sel) == sel
\* the index the Tab handler of the field cycles from: `idx`, captured before
\* confirmID, `sel` being the selection confirmID has left
TabStart(idx, sel) == idx

\* keydown listener of #cow-id-input, key Tab: the selected index is captured,
\* confirmID runs (a TypeError in it ends the handler), then cycleSelection
\* runs from the captured index on the confirmed document.  The overlay that
\* confirmID hides is shown again by selectBox within the handler, so the
\* field keeps the focus; it loses it when no box is selected again.
InputTab ==
    /\ inputFocused
    /\ held' = held \cup {"Tab"}
    /\ LET idx == selectedBoxIndex
           direction == IF "Shift" \in held THEN -1 ELSE 1
       IN  IF idx = -1
           THEN /\ CycleSelection(direction, idx, annotationData, -1,
                                  inputBoxDisplay, inputFocused, 0)
                /\ UNCHANGED annotationData
           ELSE IF BoxExists(annotationData, idx)
           THEN /\ annotationData' = ConfirmedDoc(annotationData, idx, inputValue)
                /\ CycleSelection(direction, TabStart(idx, -1), annotationData', -1,
                                  "none", inputFocused, 1)
           ELSE /\ redraws' = 0
                /\ UNCHANGED <<annotationData, selectedBoxIndex, ovlVars>>
    /\ UNCHANGED <<navVars, imgObj, camVars, dragVars, hoveredBoxIndex, keysPressed,
                   saveVars, netVars, srvVars, loopScheduled, sizeVars, galleryShown>>

(***************************************************************************)
(* Pointer handlers.                                                       *)
(***************************************************************************)
\* handleMouseDown, left button, at client point p of the container.  A
\* press on the identity-edit overlay is ignored; a press on the canvas takes
\* the focus from the identity field.
MouseDown(p) ==
    /\ InContainer(p)
    /\ IF OverOverlay(p)
       THEN /\ redraws' = 0
            /\ UNCHANGED <<dragVars, selectedBoxIndex, ovlVars>>
       ELSE IF hoveredBoxIndex # -1
       THEN /\ SelectBox(hoveredBoxIndex, R(p[1]), R(p[2]), annotationData,
                         inputBoxDisplay, FALSE)
            /\ redraws' = Rendered(imgObj, 1)
            /\ UNCHANGED dragVars
       ELSE /\ isDragging' = TRUE
            /\ lastMouseX' = p[1]
            /\ lastMouseY' = p[2]
            /\ selectedBoxIndex' = -1
            /\ inputBoxDisplay' = "none"
            /\ inputFocused' = FALSE
            /\ redraws' = Rendered(imgObj, 1)
            /\ UNCHANGED <<inputLeft, inputTop, inputValue, focusTimers>>
    /\ UNCHANGED <<navVars, docVars, camVars, hoveredBoxIndex, keyVars, saveVars,
                   netVars, srvVars, loopScheduled, sizeVars, galleryShown>>

\* handleMouseMove at client point p
MouseMove(p) ==
    /\ IF ~HasImg(imgObj)
       THEN /\ redraws' = 0
            /\ UNCHANGED <<camVars, dragVars, hoveredBoxIndex>>
       ELSE IF isDragging
       THEN /\ camOps < MaxCamOps
            /\ offsetX' = RAdd(offsetX, R(p[1] - lastMouseX))
            /\ offsetY' = RAdd(offsetY, R(p[2] - lastMouseY))
            /\ lastMouseX' = p[1]
            /\ lastMouseY' = p[2]
            /\ camOps' = camOps + 1
            /\ redraws' = Rendered(imgObj, 1)
            /\ UNCHANGED <<scale, isDragging, hoveredBoxIndex>>
       ELSE LET found == HitTest(p[1] - ContainerRect.left, p[2] - ContainerRect.top,
                                 imgObj, annotationData, scale, offsetX, offsetY)
            IN  /\ hoveredBoxIndex' = found
                /\ redraws' = IF found # hoveredBoxIndex
                              THEN Rendered(imgObj, 1) ELSE 0
                /\ UNCHANGED <<camVars, dragVars>>
    /\ UNCHANGED <<navVars, docVars, selectedBoxIndex, ovlVars, keyVars, saveVars,
                   netVars, srvVars, loopScheduled, sizeVars, galleryShown>>

\* handleMouseUp
MouseUp ==
    /\ isDragging' = FALSE
    /\ UNCHANGED <<navVars, docVars, camVars, lastMouseX, lastMouseY, hoveredBoxIndex,
                   selectedBoxIndex, ovlVars, keyVars, saveVars, netVars, srvVars, loopScheduled, sizeVars, galleryShown>>
    /\ redraws' = 0


(***************************************************************************)
(* Camera: wheel zoom, keyboard/toolbar zoom, fit, pan.                    *)
(***************************************************************************)
\* handleResize, the window's resize listener: the window is resized so that
\* the container is laid out at size sz while it is displayed; the canvas
\* takes the container's client size (0 by 0 while #app is not displayed) and
\* is redrawn; the camera stays
HandleResize(sz) ==
    /\ sz \in ContainerSizes
    /\ layoutW' = sz[1]
    /\ layoutH' = sz[2]
    /\ canvasW' = IF appDisplay = "none" THEN 0 ELSE sz[1]
    /\ canvasH' = IF appDisplay = "none" THEN 0 ELSE sz[2]
    /\ redraws' = Rendered(imgObj, 1)
    /\ UNCHANGED <<navVars, docVars, camVars, dragVars, hoveredBoxIndex,
                   selectedBoxIndex, ovlVars, keyVars, saveVars, netVars, srvVars,
                   loopScheduled, galleryShown>>

MinScale == <<1, 20>>
MaxScale == <<10, 1>>

\* newScale of handleWheel: state.scale * factor, clamped to [0.05, 10]
WheelScale(sc, direction) ==
    LET factor == RAdd(R(1), RMul(R(direction), <<1, 10>>))
    IN  RMax(MinScale, RMin(MaxScale, RMul(sc, factor)))

\* the offset handleWheel sets on one axis: mouse - world * newScale
AnchoredOffset(mouse, world, newScale) == RSub(mouse, RMul(world, newScale))

\* a wheel handler that leaves the overlay as it is
WheelOverlayKept(disp) == disp
\* the display of the identity-edit overlay after handleWheel has zoomed
WheelOverlay(disp) == "none"

\* e.offsetX, e.offsetY of a mouse event at client point p of the container:
\* the position in the event's target, which is the overlay where the overlay
\* covers the canvas
EventOffsetX(p) ==
    IF OverOverlay(p) THEN RSub(R(p[1] - ContainerRect.left), inputLeft)
    ELSE R(p[1] - ContainerRect.left)
EventOffsetY(p) ==
    IF OverOverlay(p) THEN RSub(R(p[2] - ContainerRect.top), inputTop)
    ELSE R(p[2] - ContainerRect.top)

\* handleWheel at client point p of the container, direction 1 (deltaY < 0)
\* or -1
Wheel(p, direction) ==
    /\ InContainer(p)
    /\ IF ~HasImg(imgObj)
       THEN /\ redraws' = 0
            /\ UNCHANGED <<camVars, inputBoxDisplay, inputFocused>>
       ELSE LET mouseX == EventOffsetX(p)
                mouseY == EventOffsetY(p)
                worldX == RDiv(RSub(mouseX, offsetX), scale)
                worldY == RDiv(RSub(mouseY, offsetY), scale)
                newScale == WheelScale(scale, direction)
            IN  /\ camOps < MaxCamOps
                /\ offsetX' = AnchoredOffset(mouseX, worldX, newScale)
                /\ offsetY' = AnchoredOffset(mouseY, worldY, newScale)
                /\ scale' = newScale
                /\ camOps' = camOps + 1
                /\ redraws' = Rendered(imgObj, 1)
                /\ inputBoxDisplay' = WheelOverlay(inputBoxDisplay)
                /\ inputFocused' = FALSE
    /\ UNCHANGED <<navVars, docVars, dragVars, hoveredBoxIndex, selectedBoxIndex,
                   inputLeft, inputTop, inputValue, focusTimers, keyVars, saveVars,
                   netVars, srvVars, loopScheduled, sizeVars, galleryShown>>

\* the scale editor.zoomIn / editor.zoomOut set
ZoomInScale(sc) == RMul(sc, <<6, 5>>)
ZoomOutScale(sc) == RDiv(sc, <<6, 5>>)

\* editor.zoomIn().  Assigns camVars, redraws.
ZoomIn ==
    /\ camOps < MaxCamOps
    /\ scale' = ZoomInScale(scale)
    /\ camOps' = camOps + 1
    /\ redraws' = Rendered(imgObj, 1)
    /\ UNCHANGED <<offsetX, offsetY>>

\* editor.zoomOut().  Assigns camVars, redraws.
ZoomOut ==
    /\ camOps < MaxCamOps
    /\ scale' = ZoomOutScale(scale)
    /\ camOps' = camOps + 1
    /\ redraws' = Rendered(imgObj, 1)
    /\ UNCHANGED <<offsetX, offsetY>>

\* editor.resetView(): fitImageToScreen, renderCanvas.  Assigns camVars, redraws.
ResetView ==
    /\ IF HasImg(imgObj)
       THEN /\ scale' = FitScale(imgObj)
            /\ offsetX' = FitOffsetX(imgObj)
            /\ offsetY' = FitOffsetY(imgObj)
       ELSE UNCHANGED <<scale, offsetX, offsetY>>
    /\ redraws' = Rendered(imgObj, 1)
    /\ UNCHANGED camOps

\* the toolbar's zoom and fit controls (a click there takes the field's focus)
ToolbarZoomIn ==
    /\ appDisplay = "flex"
    /\ ZoomIn
    /\ inputFocused' = FALSE
    /\ UNCHANGED <<navVars, docVars, dragVars, hoveredBoxIndex, selectedBoxIndex,
                   inputBoxDisplay, inputLeft, inputTop, inputValue, focusTimers,
                   keyVars, saveVars, netVars, srvVars, loopScheduled, sizeVars, galleryShown>>

ToolbarZoomOut ==
    /\ appDisplay = "flex"
    /\ ZoomOut
    /\ inputFocused' = FALSE
    /\ UNCHANGED <<navVars, docVars, dragVars, hoveredBoxIndex, selectedBoxIndex,
                   inputBoxDisplay, inputLeft, inputTop, inputValue, focusTimers,
                   keyVars, saveVars, netVars, srvVars, loopScheduled, sizeVars, galleryShown>>

ToolbarResetView ==
    /\ appDisplay = "flex"
    /\ ResetView
    /\ inputFocused' = FALSE
    /\ UNCHANGED <<navVars, docVars, dragVars, hoveredBoxIndex, selectedBoxIndex,
                   inputBoxDisplay, inputLeft, inputTop, inputValue, focusTimers,
                   keyVars, saveVars, netVars, srvVars, loopScheduled, sizeVars, galleryShown>>

\* dx, dy of updateLoop for a keysPressed map
PanDx(keys) ==
    (IF "a" \in keys \/ "A" \in keys \/ ("Control" \in keys /\ "ArrowLeft" \in keys)
     THEN 10 ELSE 0)
    - (IF "d" \in keys \/ "D" \in keys \/ ("Control" \in keys /\ "ArrowRight" \in keys)
       THEN 10 ELSE 0)
PanDy(keys) ==
    (IF "w" \in keys \/ "W" \in keys \/ ("Control" \in keys /\ "ArrowUp" \in keys)
     THEN 10 ELSE 0)
    - (IF "s" \in keys \/ "S" \in keys \/ ("Control" \in keys /\ "ArrowDown" \in keys)
       THEN 10 ELSE 0)

\* the last statement of updateLoop, outside the test for the main view:
\* requestAnimationFrame(updateLoop)
Reschedule(active) == TRUE

\* updateLoop: one animation frame; panView(dx, dy) when a pan key is held
Tick ==
    /\ loopScheduled
    /\ loopScheduled' = Reschedule(MainActive)
    /\ IF MainActive /\ (PanDx(keysPressed) # 0 \/ PanDy(keysPressed) # 0)
       THEN /\ camOps < MaxCamOps
            /\ offsetX' = RAdd(offsetX, R(PanDx(keysPressed)))
            /\ offsetY' = RAdd(offsetY, R(PanDy(keysPressed)))
            /\ camOps' = camOps + 1
            /\ redraws' = Rendered(imgObj, 1)
            /\ UNCHANGED scale
       ELSE /\ redraws' = 0
            /\ UNCHANGED camVars
    /\ UNCHANGED <<navVars, docVars, dragVars, hoveredBoxIndex, selectedBoxIndex,
                   ovlVars, keyVars, saveVars, netVars, srvVars, sizeVars,
                   galleryShown>>

(***************************************************************************)
(* Save.                                                                   *)
(***************************************************************************)
\* editor.saveCurrent() up to the await.  Assigns saveVars, reqSeq.
SaveCurrent ==
    IF ~HasDoc(annotationData)
    THEN UNCHANGED <<saveVars, reqSeq>>
    ELSE /\ reqSeq.saves < MaxSaves
         /\ btnText' = "Saving..."
         /\ saves' = saves \cup {[id |-> reqSeq.saves + 1,
                                  file |-> annotationData.filename,
                                  doc |-> annotationData,
                                  originalText |-> btnText]}
         /\ reqSeq' = [reqSeq EXCEPT !.saves = @ + 1]
         /\ UNCHANGED btnTimers

\* the save button is clicked
SaveClick ==
    /\ appDisplay = "flex"
    /\ SaveCurrent
    /\ inputFocused' = FALSE
    /\ UNCHANGED <<navVars, docVars, camVars, dragVars, hoveredBoxIndex,
                   selectedBoxIndex, inputBoxDisplay, inputLeft, inputTop, inputValue,
                   focusTimers, keyVars, imgLoads, annotFetches, listFetches, srvVars, loopScheduled, sizeVars, galleryShown>>
    /\ redraws' = 0

\* saveCurrent after the await, json.status === 'success': the store has taken
\* the document; the entry at currentImageIndex is recomputed from
\* state.annotationData.  With no entry at that index the assignment throws
\* and the catch block runs.
SaveSuccess(s) ==
    /\ s \in saves
    /\ saves' = saves \ {s}
    /\ srvDocs' = [srvDocs EXCEPT ![s.file] = s.doc]
    /\ srvSaved' = srvSaved \cup {s.file}
    /\ btnTimers' = btnTimers \cup {[id |-> s.id, text |-> s.originalText]}
    /\ IF currentImageIndex >= 0 /\ currentImageIndex < Len(imageList)
       THEN /\ btnText' = "Saved!"
            /\ imageList' = [imageList EXCEPT ![currentImageIndex + 1] =
                                RecomputedEntry(@, annotationData.annotations)]
            /\ galleryShown' = TRUE
       ELSE /\ btnText' = s.originalText
            /\ UNCHANGED <<imageList, galleryShown>>
    /\ UNCHANGED <<currentDataset, currentSplit, currentImageIndex, appDisplay, docVars,
                   camVars, dragVars, hoveredBoxIndex, selectedBoxIndex, ovlVars,
                   keyVars, imgLoads, annotFetches, listFetches, reqSeq,
                   loopScheduled, sizeVars>>
    /\ redraws' = 0

\* saveCurrent after the await, json.status is not 'success': no branch runs
SaveRejected(s) ==
    /\ s \in saves
    /\ saves' = saves \ {s}
    /\ UNCHANGED <<navVars, docVars, camVars, dragVars, hoveredBoxIndex,
                   selectedBoxIndex, ovlVars, keyVars, btnText, btnTimers, imgLoads,
                   annotFetches, listFetches, reqSeq, srvVars, loopScheduled, sizeVars, galleryShown>>
    /\ redraws' = 0

\* saveCurrent: the fetch or res.json() throws; the catch block restores the label
SaveThrow(s) ==
    /\ s \in saves
    /\ saves' = saves \ {s}
    /\ btnText' = s.originalText
    /\ UNCHANGED <<navVars, docVars, camVars, dragVars, hoveredBoxIndex,
                   selectedBoxIndex, ovlVars, keyVars, btnTimers, imgLoads,
                   annotFetches, listFetches, reqSeq, srvVars, loopScheduled, sizeVars, galleryShown>>
    /\ redraws' = 0

\* setTimeout(() => btn.innerText = originalText, 1000) fires
BtnTimerFire(t) ==
    /\ t \in btnTimers
    /\ btnTimers' = btnTimers \ {t}
    /\ btnText' = t.text
    /\ UNCHANGED <<navVars, docVars, camVars, dragVars, hoveredBoxIndex,
                   selectedBoxIndex, ovlVars, keyVars, saves, netVars, srvVars,
                   loopScheduled, sizeVars, galleryShown>>
    /\ redraws' = 0


(***************************************************************************)
(* Keyboard.  `held` is the set of physical keys down; the event's key is  *)
(* the upper-case letter while Shift is down, its ctrlKey and shiftKey are *)
(* the state of the modifier keys.  While the identity field has the focus *)
(* its own listener gets the event and stops the propagation, so           *)
(* handleGlobalKeydown runs only for events dispatched elsewhere.          *)
(***************************************************************************)
Letters == {"w", "a", "s", "d", "f"}
PhysKeys == Letters \cup {"ArrowUp", "ArrowDown", "ArrowLeft", "ArrowRight", "Tab",
                          "Control", "Shift", "Enter", "Escape"}
Upper(k) == CASE k = "w" -> "W" [] k = "a" -> "A" [] k = "s" -> "S"
              [] k = "d" -> "D" [] k = "f" -> "F" [] OTHER -> k
\* e.key for physical key k under the modifier state `down`
EKey(k, down) == IF k \in Letters /\ "Shift" \in down THEN Upper(k) ELSE k

\* the first two statements of handleGlobalKeydown, and the key going down
KeyRecorded(k) ==
    /\ k \in PhysKeys
    /\ ~inputFocused
    /\ held' = held \cup {k}
    /\ keysPressed' = keysPressed \cup {EKey(k, held \cup {k})}

\* which branch of handleGlobalKeydown an event takes
KeyBranch(k, down) ==
    LET key == EKey(k, down)
        ctrl == "Control" \in down
    IN  IF key = "ArrowRight" /\ ~ctrl THEN "next"
        ELSE IF key = "ArrowLeft" /\ ~ctrl THEN "prev"
        ELSE IF key = "ArrowUp" /\ ~ctrl THEN "zoomIn"
        ELSE IF key = "ArrowDown" /\ ~ctrl THEN "zoomOut"
        ELSE IF key = "f" \/ key = "F" THEN "fit"
        ELSE IF key = "Tab" THEN "tab"
        ELSE IF ctrl /\ key = "s" THEN "save"
        ELSE "none"

\* handleGlobalKeydown: the main view is not active, or no branch matches
KeyPlain(k) ==
    /\ KeyRecorded(k)
    /\ ~MainActive \/ KeyBranch(k, held \cup {k}) = "none"
    /\ UNCHANGED <<navVars, docVars, camVars, dragVars, hoveredBoxIndex,
                   selectedBoxIndex, ovlVars, saveVars, netVars, srvVars,
                   loopScheduled, sizeVars, galleryShown>>
    /\ redraws' = 0

\* handleGlobalKeydown, ArrowRight / ArrowLeft: loadNextImage / loadPrevImage
KeyNavigate(k) ==
    /\ KeyRecorded(k)
    /\ MainActive
    /\ LET b == KeyBranch(k, held \cup {k})
       IN  /\ b \in {"next", "prev"}
           /\ IF b = "next" /\ currentImageIndex < Len(imageList) - 1
              THEN LoadEditorStart(currentImageIndex + 1)
              ELSE IF b = "prev" /\ currentImageIndex > 0
              THEN LoadEditorStart(currentImageIndex - 1)
              ELSE UNCHANGED <<currentImageIndex, imgLoads, annotFetches, reqSeq,
                               galleryShown>>
    /\ UNCHANGED <<currentDataset, currentSplit, imageList, appDisplay, docVars, camVars,
                   dragVars, hoveredBoxIndex, selectedBoxIndex, ovlVars, saveVars,
                   listFetches, srvVars, loopScheduled, sizeVars>>
    /\ redraws' = 0

\* handleGlobalKeydown, ArrowUp / ArrowDown / F: zoomIn, zoomOut, resetView
KeyCamera(k) ==
    /\ KeyRecorded(k)
    /\ MainActive
    /\ LET b == KeyBranch(k, held \cup {k})
       IN  /\ b \in {"zoomIn", "zoomOut", "fit"}
           /\ IF b = "zoomIn" THEN ZoomIn
              ELSE IF b = "zoomOut" THEN ZoomOut
              ELSE ResetView
    /\ UNCHANGED <<navVars, docVars, dragVars, hoveredBoxIndex, selectedBoxIndex,
                   ovlVars, saveVars, netVars, srvVars, loopScheduled, sizeVars, galleryShown>>

\* handleGlobalKeydown, Tab: cycleSelection(e.shiftKey ? -1 : 1)
KeyTab(k) ==
    /\ KeyRecorded(k)
    /\ MainActive
    /\ KeyBranch(k, held \cup {k}) = "tab"
    /\ CycleSelection(IF "Shift" \in held THEN -1 ELSE 1, selectedBoxIndex,
                      annotationData, selectedBoxIndex, inputBoxDisplay, inputFocused, 0)
    /\ UNCHANGED <<navVars, docVars, camVars, dragVars, hoveredBoxIndex, saveVars,
                   netVars, srvVars, loopScheduled, sizeVars, galleryShown>>

\* handleGlobalKeydown, Ctrl+S: editor.saveCurrent()
KeySave(k) ==
    /\ KeyRecorded(k)
    /\ MainActive
    /\ KeyBranch(k, held \cup {k}) = "save"
    /\ SaveCurrent
    /\ UNCHANGED <<navVars, docVars, camVars, dragVars, hoveredBoxIndex,
                   selectedBoxIndex, ovlVars, imgLoads, annotFetches, listFetches,
                   srvVars, loopScheduled, sizeVars, galleryShown>>
    /\ redraws' = 0

\* keydown listener of #cow-id-input, any other key: only stopPropagation
InputOtherKey(k) ==
    /\ inputFocused
    /\ k \in PhysKeys \ {"Enter", "Escape", "Tab"}
    /\ held' = held \cup {k}
    /\ UNCHANGED <<navVars, docVars, camVars, dragVars, hoveredBoxIndex,
                   selectedBoxIndex, ovlVars, keysPressed, saveVars, netVars, srvVars, loopScheduled, sizeVars, galleryShown>>
    /\ redraws' = 0

\* the keyup listener registered by init()
KeyUp(k) ==
    /\ k \in held
    /\ held' = held \ {k}
    /\ keysPressed' = keysPressed \ {EKey(k, held)}
    /\ UNCHANGED <<navVars, docVars, camVars, dragVars, hoveredBoxIndex,
                   selectedBoxIndex, ovlVars, saveVars, netVars, srvVars,
                   loopScheduled, sizeVars, galleryShown>>
    /\ redraws' = 0


(***************************************************************************)
(* The whole program.                                                      *)
(***************************************************************************)
Next ==
    \/ LoadDataset
    \/ ExitToHome
    \/ \E sz \in ContainerSizes : HandleResize(sz)
    \/ \E split \in Splits : SwitchTab(split)
    \/ \E r \in listFetches : ListResponse(r) \/ ListFail(r)
    \/ \E i \in 0..2 : GalleryClick(i)
    \/ \E r \in imgLoads : ImageOnload(r) \/ ImageError(r)
    \/ \E r \in annotFetches : AnnotResponse(r) \/ AnnotFail(r)
    \/ \E p \in Points : MouseDown(p) \/ MouseMove(p)
    \/ MouseUp
    \/ \E p \in WheelPoints, direction \in {-1, 1} : Wheel(p, direction)
    \/ FocusTimerFire
    \/ \E t \in Texts : TypeText(t)
    \/ ConfirmClick
    \/ CancelClick
    \/ InputEnter
    \/ InputEscape
    \/ InputTab
    \/ \E k \in PhysKeys :
          KeyPlain(k) \/ KeyNavigate(k) \/ KeyCamera(k) \/ KeyTab(k) \/ KeySave(k)
            \/ InputOtherKey(k) \/ KeyUp(k)
    \/ ToolbarZoomIn
    \/ ToolbarZoomOut
    \/ ToolbarResetView
    \/ Tick
    \/ SaveClick
    \/ \E s \in saves : SaveSuccess(s) \/ SaveRejected(s) \/ SaveThrow(s)
    \/ \E t \in btnTimers : BtnTimerFire(t)

Spec == Init /\ [][Next]_vars


(***************************************************************************)
(* Scenarios: the program started in a state it reaches, driven by the     *)
(* handlers one concern needs.                                             *)
(***************************************************************************)
\* the state after LoadDataset and ListResponse, the store holding `docs`:
\* the train list is shown
OpenState(docs) ==
    /\ currentDataset = "ds"
    /\ currentSplit = "train"
    /\ imageList = ServerList("train", docs, {})
    /\ currentImageIndex = -1
    /\ imgObj = NullImg
    /\ annotationData = NullDoc
    /\ scale = R(1) /\ offsetX = R(0) /\ offsetY = R(0)
    /\ isDragging = FALSE /\ lastMouseX = 0 /\ lastMouseY = 0
    /\ hoveredBoxIndex = -1 /\ selectedBoxIndex = -1
    /\ keysPressed = {} /\ held = {}
    /\ appDisplay = "flex"
    /\ inputBoxDisplay = "none"
    /\ inputLeft = R(0) /\ inputTop = R(0)
    /\ inputValue = <<>>
    /\ inputFocused = FALSE
    /\ btnText = "Save"
    /\ redraws = 0
    /\ imgLoads = {} /\ annotFetches = {} /\ listFetches = {} /\ saves = {}
    /\ focusTimers = 0
    /\ btnTimers = {}
    /\ loopScheduled = TRUE
    /\ srvDocs = docs
    /\ srvSaved = {}
    /\ reqSeq = [loads |-> 0, saves |-> 0, lists |-> 1]
    /\ camOps = 0
    /\ layoutW = 800 /\ layoutH = 600
    /\ canvasW = 800 /\ canvasH = 600
    /\ galleryShown = TRUE

InitOpen == OpenState([f \in Files |-> InitialDoc(f)])

\* InitialDoc(f) with exactly the boxes in `lab` labelled (identity CowName)
\* and the boxes in `emp` holding the empty string as identity, the others
\* holding null
StoredDoc(f, lab, emp) ==
    [InitialDoc(f) EXCEPT !.annotations =
        [k \in 1..Len(InitialDoc(f).annotations) |->
            IF k \in lab
            THEN [InitialDoc(f).annotations[k] EXCEPT !.cow_id = Str(CowName),
                                                      !.status = "labeled"]
            ELSE IF k \in emp
            THEN [InitialDoc(f).annotations[k] EXCEPT !.cow_id = Str(<<>>),
                                                      !.status = "unknown"]
            ELSE [InitialDoc(f).annotations[k] EXCEPT !.cow_id = NullId,
                                                      !.status = "unknown"]]]

\* the stores in which the first n boxes of A are labelled, n = 0..3
StoredDocs ==
    { [f \in Files |-> StoredDoc(f, IF f = "A" THEN 1..n ELSE {}, {})] : n \in 0..3 }

\* the open state over any such store
InitStored == \E docs \in StoredDocs : OpenState(docs)

\* Navigation between images with both loads of each navigation in flight,
\* and the pointer hovering and selecting boxes meanwhile.
NextLoad ==
    \/ \E i \in 0..2 : GalleryClick(i)
    \/ \E k \in {"ArrowRight"} : KeyNavigate(k) \/ KeyUp(k)
    \/ \E r \in imgLoads : ImageOnload(r) \/ ImageError(r)
    \/ \E r \in annotFetches : AnnotResponse(r) \/ AnnotFail(r)
    \/ \E p \in {<<400, 300>>, <<10, 10>>} : MouseDown(p) \/ MouseMove(p)
    \/ MouseUp
    \/ FocusTimerFire

SpecLoad == InitOpen /\ [][NextLoad]_vars


\* The camera: images are opened and the view is zoomed by wheel, keys and
\* toolbar, and fitted.
NextCamera ==
    \/ \E i \in 0..2 : GalleryClick(i)
    \/ \E r \in imgLoads : ImageOnload(r)
    \/ \E r \in annotFetches : AnnotResponse(r)
    \/ \E p \in {<<400, 300>>, <<10, 10>>}, direction \in {-1, 1} : Wheel(p, direction)
    \/ \E k \in {"ArrowUp", "ArrowDown", "f"} : KeyCamera(k) \/ KeyUp(k)
    \/ ToolbarZoomIn
    \/ ToolbarZoomOut
    \/ ToolbarResetView

SpecCamera == InitOpen /\ [][NextCamera]_vars

\* Saving: A (three boxes) and C (no box) are opened and saved, the responses
\* arriving at any later time, the user navigating on meanwhile.  (The
\* bitmaps, which saving does not read, stay in flight.)
NextSave ==
    \/ \E i \in {0, 2} : GalleryClick(i)
    \/ \E r \in annotFetches : AnnotResponse(r)
    \/ SaveClick
    \/ \E s \in saves : SaveSuccess(s) \/ SaveRejected(s) \/ SaveThrow(s)
    \/ \E t \in btnTimers : BtnTimerFire(t)

SpecSave == InitStored /\ [][NextSave]_vars

\* the state after GalleryClick(0), ImageOnload and AnnotResponse from
\* InitOpen: image A is shown fitted, its document is loaded
InitEditing ==
    /\ currentDataset = "ds"
    /\ currentSplit = "train"
    /\ imageList = ServerList("train", [f \in Files |-> InitialDoc(f)], {})
    /\ currentImageIndex = 0
    /\ imgObj = "A"
    /\ annotationData = InitialDoc("A")
    /\ layoutW = 800 /\ layoutH = 600
    /\ canvasW = 800 /\ canvasH = 600
    /\ scale = FitScale("A") /\ offsetX = FitOffsetX("A") /\ offsetY = FitOffsetY("A")
    /\ isDragging = FALSE /\ lastMouseX = 0 /\ lastMouseY = 0
    /\ hoveredBoxIndex = -1 /\ selectedBoxIndex = -1
    /\ keysPressed = {} /\ held = {}
    /\ appDisplay = "flex"
    /\ inputBoxDisplay = "none"
    /\ inputLeft = R(0) /\ inputTop = R(0)
    /\ inputValue = <<>>
    /\ inputFocused = FALSE
    /\ btnText = "Save"
    /\ redraws = 1
    /\ imgLoads = {} /\ annotFetches = {} /\ listFetches = {} /\ saves = {}
    /\ focusTimers = 0
    /\ btnTimers = {}
    /\ loopScheduled = TRUE
    /\ srvDocs = [f \in Files |-> InitialDoc(f)]
    /\ srvSaved = {}
    /\ reqSeq = [loads |-> 1, saves |-> 0, lists |-> 1]
    /\ camOps = 0
    /\ galleryShown = TRUE

\* no save has been requested yet
Unsaved == reqSeq.saves = 0

\* An editing session on one document: boxes are selected by pointer and by
\* Tab, identities typed, confirmed and cancelled, the view zoomed by the wheel
\* and panned by a held W key; the session ends with the document being saved,
\* one request at a time.
NextEdit ==
    \/ Unsaved /\ MouseMove(<<400, 300>>)
    \/ Unsaved /\ MouseDown(<<400, 300>>)
    \/ Unsaved /\ FocusTimerFire
    \/ \E t \in EditTexts : Unsaved /\ TypeText(t)
    \/ Unsaved /\ ConfirmClick
    \/ Unsaved /\ InputEnter
    \/ Unsaved /\ CancelClick
    \/ Unsaved /\ InputTab
    \/ Unsaved /\ Wheel(<<400, 300>>, 1)
    \/ Unsaved /\ KeyPlain("w")
    \/ Unsaved /\ Tick
    \/ saves = {} /\ SaveClick
    \/ \E s \in saves : SaveSuccess(s)

SpecEdit == InitEditing /\ [][NextEdit]_vars

\* Cycling through the boxes of document A with Tab and Shift+Tab, from the
\* page and from the identity field, an identity typed or blanked on the
\* way, the view zoomed in from the toolbar.
NextTab ==
    \/ KeyTab("Tab")
    \/ InputTab
    \/ KeyPlain("Shift")
    \/ InputOtherKey("Shift")
    \/ \E k \in {"Tab", "Shift"} : KeyUp(k)
    \/ FocusTimerFire
    \/ \E t \in TabTexts : TypeText(t)
    \/ ToolbarZoomIn

SpecTab == InitEditing /\ [][NextTab]_vars

\* The pointer over image A: it hovers, presses on boxes and beside them,
\* drags and turns the wheel, before the image has arrived, between image and
\* document, and after both.
NextPointer ==
    \/ currentImageIndex = -1 /\ GalleryClick(0)
    \/ \E r \in imgLoads : ImageOnload(r)
    \/ \E r \in annotFetches : AnnotResponse(r)
    \/ \E p \in Points : MouseMove(p)
    \/ MouseDown(<<184, 300>>)
    \/ MouseUp
    \/ \E direction \in {-1, 1} : Wheel(<<400, 300>>, direction)
    \/ FocusTimerFire

SpecPointer == InitOpen /\ [][NextPointer]_vars

\* The wheel over one image: A, B (fitted at scale 9, one step below the upper
\* limit) or C (fitted one step above the lower limit, and below it in the
\* smaller container) is opened and the wheel is turned at three points, the
\* toolbar zooming in and out and the window being resized between, and a box
\* being selected with Tab, which shows the overlay.
NextWheel ==
    \/ \E i \in 0..2 : currentImageIndex = -1 /\ GalleryClick(i)
    \/ \E r \in imgLoads : ImageOnload(r)
    \/ \E r \in annotFetches : AnnotResponse(r)
    \/ \E p \in {<<400, 300>>, <<184, 300>>, <<10, 10>>}, direction \in {-1, 1} :
          Wheel(p, direction)
    \/ KeyTab("Tab")
    \/ KeyUp("Tab")
    \/ ToolbarZoomIn
    \/ ToolbarZoomOut
    \/ \E sz \in ContainerSizes : HandleResize(sz)

SpecWheel == InitOpen /\ [][NextWheel]_vars

\* Panning with the keyboard over image A: pan keys, Shift and Control go
\* down and up in any order while the frames tick, and the user leaves for
\* the dataset picker and comes back.
PanKeys == {"w", "s", "ArrowLeft", "Control", "Shift"}
NextPan ==
    \/ \E k \in PanKeys : KeyPlain(k)
    \/ KeyNavigate("ArrowLeft")
    \/ \E k \in PanKeys : KeyUp(k)
    \/ Tick
    \/ ExitToHome
    \/ LoadDataset

SpecPan == InitEditing /\ [][NextPan]_vars

\* The frame loop and the keyboard over image A: W, S and Shift go down and
\* up in any order, in the page and, once Tab has selected a box and the
\* identity field has taken the focus, in the field; the frames tick, and
\* the user leaves for the dataset picker and comes back.
NextLoop ==
    \/ \E k \in {"w", "s", "Shift"} : KeyPlain(k)
    \/ \E k \in {"w", "s", "Shift"} : KeyUp(k)
    \/ KeyTab("Tab")
    \/ FocusTimerFire
    \/ InputOtherKey("w")
    \/ Tick
    \/ ExitToHome
    \/ LoadDataset

SpecLoop == InitEditing /\ [][NextLoop]_vars

\* Leaving an edit without confirming: a box of image A is selected with the
\* pointer, a text is typed, and the edit is left by Escape, by the cancel
\* control, by turning the wheel, by a press beside the boxes or by a click on
\* the toolbar.
NextCancel ==
    \/ \E p \in {<<400, 300>>, <<10, 10>>} : MouseMove(p) \/ MouseDown(p)
    \/ MouseUp
    \/ FocusTimerFire
    \/ \E t \in {<<32, 9, 10, 11, 12, 13>>, CowName} : TypeText(t)
    \/ InputEscape
    \/ KeyUp("Escape")
    \/ CancelClick
    \/ Wheel(<<400, 300>>, 1)
    \/ ToolbarZoomIn

SpecCancel == InitEditing /\ [][NextCancel]_vars

\* The image list under an open image: images of the train split are opened
\* by click and by arrow key, and the list is reloaded or replaced by that of
\* the other split meanwhile.
NextList ==
    \/ \E i \in 0..2 : GalleryClick(i)
    \/ \E k \in {"ArrowRight", "ArrowLeft"} : KeyNavigate(k) \/ KeyUp(k)
    \/ \E r \in imgLoads : ImageOnload(r)
    \/ \E r \in annotFetches : AnnotResponse(r)
    \/ \E split \in Splits : SwitchTab(split)
    \/ \E r \in listFetches : ListResponse(r) \/ ListFail(r)

SpecList == InitOpen /\ [][NextList]_vars

\* The pointer resting at one point of image A, on the shared edge of boxes 1
\* and 2, while the keyboard zooms, fits, pans and navigates; the button is
\* pressed and released there.
RestPoint == <<184, 300>>
NextRest ==
    \/ MouseMove(RestPoint)
    \/ MouseDown(RestPoint)
    \/ MouseUp
    \/ FocusTimerFire
    \/ \E k \in {"ArrowUp", "f"} : KeyCamera(k)
    \/ KeyPlain("w")
    \/ Tick
    \/ KeyNavigate("ArrowRight")
    \/ KeyUp("w")
    \/ \E r \in imgLoads : ImageOnload(r)
    \/ \E r \in annotFetches : AnnotResponse(r)

SpecRest == InitEditing /\ [][NextRest]_vars

\* Saving from the keyboard: Control goes down, S is pressed with it, the
\* keys are released in either order, the frames tick and the responses of
\* the store arrive.
NextSaveKey ==
    \/ KeyPlain("Control")
    \/ KeySave("s")
    \/ \E k \in {"Control", "s"} : KeyUp(k)
    \/ Tick
    \/ \E s \in saves : SaveSuccess(s)
    \/ \E t \in btnTimers : BtnTimerFire(t)

SpecSaveKey == InitEditing /\ [][NextSaveKey]_vars

\* image A shown fitted with document `doc` loaded: InitEditing for another
\* stored document of A
EditingState(doc) ==
    /\ currentDataset = "ds"
    /\ currentSplit = "train"
    /\ imageList = ServerList("train", [f \in Files |-> IF f = "A" THEN doc ELSE InitialDoc(f)], {})
    /\ currentImageIndex = 0
    /\ imgObj = "A"
    /\ annotationData = doc
    /\ layoutW = 800 /\ layoutH = 600
    /\ canvasW = 800 /\ canvasH = 600
    /\ scale = FitScale("A") /\ offsetX = FitOffsetX("A") /\ offsetY = FitOffsetY("A")
    /\ isDragging = FALSE /\ lastMouseX = 0 /\ lastMouseY = 0
    /\ hoveredBoxIndex = -1 /\ selectedBoxIndex = -1
    /\ keysPressed = {} /\ held = {}
    /\ appDisplay = "flex"
    /\ inputBoxDisplay = "none"
    /\ inputLeft = R(0) /\ inputTop = R(0)
    /\ inputValue = <<>>
    /\ inputFocused = FALSE
    /\ btnText = "Save"
    /\ redraws = 1
    /\ imgLoads = {} /\ annotFetches = {} /\ listFetches = {} /\ saves = {}
    /\ focusTimers = 0
    /\ btnTimers = {}
    /\ loopScheduled = TRUE
    /\ srvDocs = [f \in Files |-> IF f = "A" THEN doc ELSE InitialDoc(f)]
    /\ srvSaved = {}
    /\ reqSeq = [loads |-> 1, saves |-> 0, lists |-> 1]
    /\ camOps = 0
    /\ galleryShown = TRUE

\* Cycling only: image A is open with any of its boxes labelled, and Tab and
\* Shift+Tab are pressed in the page and in the identity field, nothing being
\* typed.
InitCycle ==
    \E lab \in SUBSET {1, 2, 3} :
        \E emp \in SUBSET ({1, 2, 3} \ lab) : EditingState(StoredDoc("A", lab, emp))
NextCycle ==
    \/ KeyTab("Tab")
    \/ InputTab
    \/ KeyPlain("Shift")
    \/ InputOtherKey("Shift")
    \/ \E k \in {"Tab", "Shift"} : KeyUp(k)
    \/ FocusTimerFire

SpecCycle == InitCycle /\ [][NextCycle]_vars









(***************************************************************************)
(* Claims about loading (SpecLoad).                                        *)
(***************************************************************************)
\* the file of the image the user last navigated to
CurrentFile ==
    IF currentImageIndex >= 0 /\ currentImageIndex < Len(imageList)
    THEN imageList[currentImageIndex + 1].filename
    ELSE "null"

\* C1: after the user has navigated from image A to image B, the bitmap of A
\* never becomes state.imgObj: whenever an image load completes, in any
\* order, the bitmap it installs is the one of the image last navigated to.
C1_StaleBitmapNeverShown ==
    [][\A r \in imgLoads : ImageOnload(r) => imgObj' = CurrentFile]_vars

\* C2: after the user has navigated from image A to image B, the annotation
\* document of A is never installed as state.annotationData: whenever an
\* annotation response arrives, in any order, the document it installs is
\* the one of the image last navigated to.
C2_StaleDocumentNeverInstalled ==
    [][\A r \in annotFetches :
          AnnotResponse(r) => annotationData'.filename = CurrentFile]_vars

\* C6: whenever an annotation response is installed (the document is
\* replaced), the hovered index and the selected index are both none
\* afterwards.
C6_SelectionResetOnReplace ==
    [][(\E r \in annotFetches : AnnotResponse(r)) =>
          (hoveredBoxIndex' = -1 /\ selectedBoxIndex' = -1)]_vars

(***************************************************************************)
(* Claims about the camera (SpecCamera).                                   *)
(***************************************************************************)
InRange(sc) == RLe(MinScale, sc) /\ RLe(sc, MaxScale)

\* a zoom operation: wheel zoom in or out, keyboard or toolbar zoomIn, zoomOut
ZoomStep ==
    \/ \E p \in WheelPoints, direction \in {-1, 1} : Wheel(p, direction)
    \/ \E k \in {"ArrowUp", "ArrowDown"} : KeyCamera(k)
    \/ ToolbarZoomIn
    \/ ToolbarZoomOut

\* C3: a zoom operation (wheel zoom in or out, keyboard or toolbar zoomIn or
\* zoomOut) taken at a scale inside [0.05, 10] leaves the scale inside
\* [0.05, 10], so no sequence of them leaves the interval.
C3_ZoomStaysInRange ==
    [][(InRange(scale) /\ ZoomStep) => InRange(scale')]_vars

(***************************************************************************)
(* Claims about saving (SpecSave).                                         *)
(***************************************************************************)
\* C4: when the save of document D sent for list entry i succeeds, the
\* recompute writes the status, the labelled identities and the box count
\* derived from D into entry i and changes no other entry, whatever the user
\* navigated to between the request and its response.
C4_RecomputeWritesSavedEntry ==
    [][\A s \in saves :
          SaveSuccess(s) =>
              \E i \in 1..Len(imageList) :
                  /\ imageList[i].filename = s.file
                  /\ imageList' = [imageList EXCEPT
                                      ![i] = RecomputedEntry(@, s.doc.annotations)]]_vars

\* C5: at no time are two save requests outstanding.
C5_OneSaveOutstanding == Cardinality(saves) <= 1

CountLabeled(annots) == Cardinality({k \in 1..Len(annots) : annots[k].status = "labeled"})

\* the status the rule of C7 gives for L labelled boxes out of N
StatusOf(L, N) ==
    IF L = N /\ N > 0 THEN "completed"
    ELSE IF 0 < L /\ L < N THEN "in_progress"
    ELSE "touched"

\* C7: the status a successful save writes into the list entry is
\* completed when L = N and N > 0, in_progress when 0 < L < N, and touched
\* when L = 0 (N = 0 included), L being the number of boxes with status
\* labeled and N the number of boxes of the document the recompute reads.
C7_StatusFromCounts ==
    [][\A s \in saves :
          (SaveSuccess(s) /\ CurrentFile # "null") =>
              LET annots == annotationData.annotations
                  L == CountLabeled(annots)
                  N == Len(annots)
              IN  /\ L = 0 \/ (0 < L /\ L < N) \/ (L = N /\ N > 0)
                  /\ imageList'[currentImageIndex + 1].status = StatusOf(L, N)]_vars

\* C7 witness: saves have written each of the three statuses, touched for a
\* document without boxes included.
C7_Witness ==
    /\ btnText = "Saved!"
    /\ \E i \in 1..Len(imageList) :
          imageList[i].status = "completed" /\ imageList[i].total_boxes = 3
    /\ \E i \in 1..Len(imageList) :
          imageList[i].status = "touched" /\ imageList[i].total_boxes = 0

(***************************************************************************)
(* Claims about editing (SpecEdit).                                        *)
(***************************************************************************)
\* a box is labeled exactly when its identity is present and not empty
BoxConsistent(box) ==
    (box.status = "labeled") <=> (box.cow_id.null = FALSE /\ Len(box.cow_id.str) > 0)

\* C8: the loaded document starting with every box labeled exactly when its
\* identity is present and non-empty, every box is so after any sequence of
\* select, confirm, cancel, Tab-cycle, pan, zoom and save operations.
C8_LabeledIffIdentity ==
    \A k \in 1..Len(annotationData.annotations) :
        BoxConsistent(annotationData.annotations[k])

\* C8 witness: an unlabelled box has been labelled and the labelled one
\* cleared, the view has been zoomed and panned, and the document saved.
C8_Witness ==
    /\ annotationData.annotations[1].status = "labeled"
    /\ annotationData.annotations[2].status = "unknown"
    /\ scale # FitScale("A")
    /\ "w" \in keysPressed /\ camOps >= 2
    /\ "A" \in srvSaved

\* code unit c is white space or a line terminator (ECMAScript 12.2, 12.3):
\* U+0009 to U+000D, U+0020, U+00A0, U+1680, U+2000 to U+200A, U+2028,
\* U+2029, U+202F, U+205F, U+3000, U+FEFF
IsBlank(c) ==
    \/ c >= 9 /\ c <= 13
    \/ c = 32 \/ c = 160 \/ c = 5760
    \/ c >= 8192 /\ c <= 8202
    \/ c = 8232 \/ c = 8233 \/ c = 8239 \/ c = 8287 \/ c = 12288 \/ c = 65279

\* t is v without its leading and trailing blanks
IsTrimOf(t, v) ==
    /\ \E i, j \in 0..Len(v) :
          /\ i + j <= Len(v)
          /\ t = SubSeq(v, i + 1, Len(v) - j)
          /\ \A k \in 1..i : IsBlank(v[k])
          /\ \A k \in (Len(v) - j + 1)..Len(v) : IsBlank(v[k])
    /\ t = <<>> \/ (~IsBlank(t[1]) /\ ~IsBlank(t[Len(t)]))

\* the candidates for the trimmed input
Infixes(v) == {SubSeq(v, i, j) : i \in 1..(Len(v) + 1), j \in 0..Len(v)}

\* confirmID runs with a box selected: from the confirm control, Enter or Tab
ConfirmStep ==
    /\ selectedBoxIndex # -1
    /\ ConfirmClick \/ InputEnter \/ InputTab

\* C9: confirmID with box i selected makes box i (identity = trimmed input,
\* status labeled) when the trimmed input is non-empty and (no identity,
\* status unknown) when the input is empty or blank, and changes no other
\* box; a step of any other operation changes no identity and no status.
C9_ConfirmSetsSelectedBoxOnly ==
    [][IF ConfirmStep
       THEN \E t \in Infixes(inputValue) :
               /\ IsTrimOf(t, inputValue)
               /\ annotationData' =
                    [annotationData EXCEPT !.annotations[selectedBoxIndex + 1] =
                        IF t # <<>>
                        THEN [@ EXCEPT !.cow_id = [null |-> FALSE, str |-> t],
                                       !.status = "labeled"]
                        ELSE [@ EXCEPT !.cow_id = NullId, !.status = "unknown"]]
       ELSE annotationData' = annotationData]_vars

\* C9 witness: the labelled box has been cleared by a confirm of a text of
\* white space, and a confirm of the padded text has labelled another box with
\* the identity alone, its first and last code unit (U+0085, U+200B) kept.
C9_Witness ==
    /\ selectedBoxIndex = -1
    /\ inputValue = <<160, 5760, 65279, 133, 32, 233, 8203, 12288, 8232, 8233>>
    /\ annotationData.annotations[2].cow_id = NullId
    /\ annotationData.annotations[2].status = "unknown"
    /\ \E k \in {1, 3} :
          /\ annotationData.annotations[k].cow_id =
                 [null |-> FALSE, str |-> <<133, 32, 233, 8203>>]
          /\ annotationData.annotations[k].status = "labeled"

(***************************************************************************)
(* Claims about Tab cycling and the overlay (SpecTab).                     *)
(***************************************************************************)
\* the number of boxes that come before box i (0-based) in ascending order of
\* x-center, boxes of equal x-center in index order
XRank(annots, i) ==
    Cardinality({j \in 0..(Len(annots) - 1) :
                    \/ RLt(annots[j + 1].yolo[1], annots[i + 1].yolo[1])
                    \/ annots[j + 1].yolo[1] = annots[i + 1].yolo[1] /\ j < i})

\* the box Tab (direction 1) or Shift+Tab (direction -1) is to select from
\* selection sel
TabTarget(annots, sel, direction) ==
    LET n == Len(annots)
        rank == IF sel >= 0 /\ sel < n
                THEN (XRank(annots, sel) + direction + n) % n
                ELSE IF direction = 1 THEN 0 ELSE n - 1
    IN  CHOOSE t \in 0..(n - 1) : XRank(annots, t) = rank

\* a Tab key press handled by the page or by the identity field
TabStep == KeyTab("Tab") \/ InputTab

\* the walk the spec gives for x-centers [0.8, 0.2, 0.5]: none, 1, 2, 0, 1
ExampleNext(sel) == CASE sel = -1 -> 1 [] sel = 1 -> 2 [] sel = 2 -> 0 [] OTHER -> 1

\* C11: with an image and a non-empty document loaded, a Tab press selects
\* the box next in ascending x-center order after the selected one, wrapping
\* from the last to the first, and Shift+Tab the previous one, wrapping from
\* the first to the last; from no selection Tab selects the lowest x-center
\* and Shift+Tab the highest; for x-centers [0.8, 0.2, 0.5] Tab walks
\* 1, 2, 0, 1.
C11_TabCyclesByXCenter ==
    [][(TabStep /\ HasImg(imgObj) /\ Len(annotationData.annotations) > 0) =>
          LET annots == annotationData.annotations
              direction == IF "Shift" \in held THEN -1 ELSE 1
          IN  /\ selectedBoxIndex' = TabTarget(annots, selectedBoxIndex, direction)
              /\ ([k \in 1..Len(annots) |-> annots[k].yolo[1]]
                      = << <<4, 5>>, <<1, 5>>, <<1, 2>> >> /\ direction = 1)
                    => selectedBoxIndex' = ExampleNext(selectedBoxIndex)]_vars

\* C11 witness: Tab has walked from the box of lowest x-center over the
\* middle one to the one of highest x-center, which is selected with the
\* field focused and Shift up.
C11_Witness ==
    /\ selectedBoxIndex = 0
    /\ inputFocused
    /\ held = {"Tab"}
    /\ camOps = 0

\* the box a confirm of field text `value` is to leave: the identity is the
\* text without its leading and trailing blanks, labeled; or none, unknown
CommittedBox(box, value) ==
    CHOOSE b \in {[box EXCEPT !.cow_id = [null |-> FALSE, str |-> t], !.status = "labeled"] :
                     t \in Infixes(value) \ {<<>>}}
                 \cup {[box EXCEPT !.cow_id = NullId, !.status = "unknown"]} :
        IF \A k \in 1..Len(value) : IsBlank(value[k])
        THEN b.cow_id = NullId /\ b.status = "unknown"
        ELSE ~b.cow_id.null /\ IsTrimOf(b.cow_id.str, value)

\* C17: Tab or Shift+Tab inside the identity field while box i is selected
\* commits the trimmed input to box i and to no other box, then selects the box
\* that follows (precedes) i in x-center order, counted from i as it was before
\* the confirm cleared the selection; the newly selected box keeps its record
\* and the field shows that box's identity.
C17_FieldTabCommitsThenAdvances ==
    [][(InputTab /\ selectedBoxIndex # -1) =>
          LET annots == annotationData.annotations
              i == selectedBoxIndex
              direction == IF "Shift" \in held THEN -1 ELSE 1
              j == selectedBoxIndex'
          IN  /\ annotationData'.annotations =
                     [k \in 1..Len(annots) |->
                        IF k = i + 1 THEN CommittedBox(annots[k], inputValue)
                        ELSE annots[k]]
              /\ j = TabTarget(annots, i, direction)
              /\ (j # i) => annotationData'.annotations[j + 1] = annots[j + 1]
              /\ inputValue' = (IF annotationData'.annotations[j + 1].cow_id.null
                                THEN <<>>
                                ELSE annotationData'.annotations[j + 1].cow_id.str)
              /\ inputBoxDisplay' = "block"]_vars
\* C17 witness: a Tab in the field has just committed the padded text to box
\* 2, which had no identity, as the identity alone, and has moved on to box 0,
\* which keeps having none; box 1, left by an earlier Tab with a text of
\* white space in the field, has lost the identity it had.
C17_Witness ==
    /\ inputFocused
    /\ selectedBoxIndex = 0
    /\ inputBoxDisplay = "block"
    /\ inputValue = <<>>
    /\ annotationData.annotations[3].cow_id =
           [null |-> FALSE, str |-> <<133, 32, 233, 8203>>]
    /\ annotationData.annotations[3].status = "labeled"
    /\ annotationData.annotations[2].cow_id = NullId
    /\ annotationData.annotations[2].status = "unknown"
    /\ annotationData.annotations[1] = InitialDoc("A").annotations[1]

\* C18: whenever the identity-edit overlay (150 wide, 60 high) is shown, after
\* a pointer click or a Tab cycle, it does not extend past the right edge or
\* the bottom edge of the viewport container: left + 150 <= container width
\* and top + 60 <= container height.
C18_OverlayInsideContainer ==
    inputBoxDisplay = "block" =>
        /\ RLe(RAdd(inputLeft, R(150)), R(ContainerRect.width))
        /\ RLe(RAdd(inputTop, R(60)), R(ContainerRect.height))


(***************************************************************************)
(* Claims about the pointer and the wheel (SpecPointer, SpecCamera).       *)
(***************************************************************************)
\* the point of image space shown at client point p
ToImage(p, sc, ox, oy) ==
    << RDiv(RSub(R(p[1] - ContainerRect.left), ox), sc),
       RDiv(RSub(R(p[2] - ContainerRect.top), oy), sc) >>

\* image point q lies in the rectangle of `box`, edges included: within half
\* the box's width of its center and within half its height
InRectangle(box, img, q) ==
    LET cx == RMul(box.yolo[1], R(ImgW(img)))
        cy == RMul(box.yolo[2], R(ImgH(img)))
        hw == RDiv(RMul(box.yolo[3], R(ImgW(img))), R(2))
        hh == RDiv(RMul(box.yolo[4], R(ImgH(img))), R(2))
    IN  /\ RLe(RSub(cx, hw), q[1]) /\ RLe(q[1], RAdd(cx, hw))
        /\ RLe(RSub(cy, hh), q[2]) /\ RLe(q[2], RAdd(cy, hh))

\* the indices of the boxes under client point p in the current state
BoxesUnder(p) ==
    IF HasDoc(annotationData)
    THEN {k \in 0..(Len(annotationData.annotations) - 1) :
             InRectangle(annotationData.annotations[k + 1], imgObj,
                         ToImage(p, scale, offsetX, offsetY))}
    ELSE {}

\* C12: a pointer move over the shown image (no drag in progress) sets the
\* hovered box to the highest sequence index among the boxes whose rectangle,
\* edges included, contains the pointer's point of image space, and to none
\* when no box contains it or no document is loaded.
C12_HoverIsTopmostContaining ==
    [][(HasImg(imgObj) /\ ~isDragging) =>
          \A p \in Points :
              MouseMove(p) =>
                  LET under == BoxesUnder(p)
                  IN  IF under = {}
                      THEN hoveredBoxIndex' = -1
                      ELSE /\ hoveredBoxIndex' \in under
                           /\ \A k \in under : k <= hoveredBoxIndex']_vars
C12_Witness ==
    /\ BoxesUnder(<<184, 300>>) = {1, 2}
    /\ hoveredBoxIndex = 2
    /\ selectedBoxIndex = 2
    /\ inputLeft = R(204)
    /\ camOps = 0

\* C14: after every wheel event on the viewport, with an image loaded or
\* without, the identity-edit overlay is closed.
C14_WheelClosesOverlay ==
    [][(\E p \in Points, direction \in {-1, 1} : Wheel(p, direction))
          => inputBoxDisplay' = "none"]_vars
C14_Witness ==
    /\ inputBoxDisplay = "none"
    /\ selectedBoxIndex # -1
    /\ scale = WheelScale(FitScale("A"), 1)

\* C13: a wheel zoom with the pointer at screen point a leaves the point of
\* image space under a where it was, for both directions and also when the
\* new scale is clamped at 0.05 or at 10.
C13_WheelKeepsAnchor ==
    [][HasImg(imgObj) =>
          \A a \in Points, direction \in {-1, 1} :
              Wheel(a, direction) =>
                  ToImage(a, scale', offsetX', offsetY')
                      = ToImage(a, scale, offsetX, offsetY)]_vars

(***************************************************************************)
(* Claims about the frame loop (SpecPan).                                  *)
(***************************************************************************)
\* 10 * [A or Ctrl+Left held] - 10 * [D or Ctrl+Right held] for the set
\* `down` of keys held, and the same for W / Ctrl+Up and S / Ctrl+Down
HeldDx(down) ==
    (IF "a" \in down \/ ({"Control", "ArrowLeft"} \subseteq down) THEN 10 ELSE 0)
    - (IF "d" \in down \/ ({"Control", "ArrowRight"} \subseteq down) THEN 10 ELSE 0)
HeldDy(down) ==
    (IF "w" \in down \/ ({"Control", "ArrowUp"} \subseteq down) THEN 10 ELSE 0)
    - (IF "s" \in down \/ ({"Control", "ArrowDown"} \subseteq down) THEN 10 ELSE 0)

\* C15: on each frame tick while the main view is active the camera offset
\* changes by exactly (dx, dy), dx = 10*[A or Ctrl+Left held] - 10*[D or
\* Ctrl+Right held], dy = 10*[W or Ctrl+Up held] - 10*[S or Ctrl+Down held];
\* the scale is unchanged, and when (dx, dy) = (0, 0) the camera is unchanged
\* and nothing is redrawn.
C15_PanFollowsHeldKeys ==
    [][(Tick /\ MainActive) =>
          LET dx == HeldDx(held)
              dy == HeldDy(held)
          IN  /\ offsetX' = RAdd(offsetX, R(dx))
              /\ offsetY' = RAdd(offsetY, R(dy))
              /\ scale' = scale
              /\ (dx = 0 /\ dy = 0) => redraws' = 0]_vars

\* the global keydown handler runs for key k
Press(k) == KeyPlain(k) \/ KeyNavigate(k) \/ KeyCamera(k) \/ KeyTab(k) \/ KeySave(k)
\* the W, A, S or D key is recorded in the key map, in either case
PanRecorded(k, keys) == k \in keys \/ Upper(k) \in keys
\* the key that pans the other way, and the movement (dx, dy) of a pan key
PanOpposite(k) == CASE k = "w" -> "s" [] k = "s" -> "w" [] k = "a" -> "d" [] OTHER -> "a"
PanMove(k) ==
    CASE k = "w" -> <<0, 10>> [] k = "s" -> <<0, -10>> [] k = "a" -> <<10, 0>>
      [] OTHER -> <<-10, 0>>

\* C16: every step leaves the next tick of the frame loop scheduled, with the
\* main view active or not and any key held or none; a W, A, S or D pressed
\* while the main view is active and the keyboard is not in the identity field
\* is recorded by the press; and a tick with the main view active, while such
\* a key is down and recorded and the key of the opposite direction is not
\* down, moves the camera by the key's movement along the key's axis.
C16_LoopAlwaysReschedules ==
    [][/\ loopScheduled'
       /\ \A k \in {"w", "a", "s", "d"} :
             /\ (Press(k) /\ MainActive /\ ~inputFocused) => PanRecorded(k, keysPressed')
             /\ ( /\ Tick
                  /\ MainActive
                  /\ k \in held
                  /\ PanRecorded(k, keysPressed)
                  /\ PanOpposite(k) \notin held )
                 => IF PanMove(k)[1] # 0
                    THEN offsetX' = RAdd(offsetX, R(PanMove(k)[1]))
                    ELSE offsetY' = RAdd(offsetY, R(PanMove(k)[2]))]_vars


(***************************************************************************)
(* Claims about leaving an edit and about the global keys.                 *)
(***************************************************************************)
\* the identity field loses the focus in a step that is not a confirm
FocusLost ==
    /\ inputFocused /\ ~inputFocused'
    /\ ~(ConfirmClick \/ InputEnter \/ InputTab)

\* C19: cancelling an edit (Escape or the cancel control) and losing the focus
\* of the identity field without confirming both leave every box's identity
\* and status unchanged, close the overlay and set the selection to none.
C19_CancelOrBlurDiscards ==
    [][(InputEscape \/ CancelClick \/ FocusLost) =>
          /\ annotationData' = annotationData
          /\ inputBoxDisplay' = "none"
          /\ selectedBoxIndex' = -1]_vars

\* a global shortcut takes effect: the key event navigates to another image,
\* zooms or fits, cycles the selection, or saves
ShortcutActs(k) ==
    \/ KeyNavigate(k) /\ currentImageIndex' # currentImageIndex
    \/ KeyCamera(k)
    \/ KeyTab(k)
    \/ KeySave(k)

\* C20: a global shortcut takes effect only while the main view is active and
\* the identity field does not have the focus; in particular none does from
\* the moment a box is selected and the overlay is shown until the overlay is
\* closed.
C20_ShortcutsOnlyOutsideEdit ==
    [][\A k \in PhysKeys :
          ShortcutActs(k) =>
              /\ MainActive
              /\ ~inputFocused
              /\ inputBoxDisplay = "none"]_vars


(***************************************************************************)
(* Claims about the state as a whole.                                      *)
(***************************************************************************)
\* index i is none or the index of a box of the current document
ValidBoxIndex(i) ==
    i = -1 \/ (i >= 0 /\ i < Len(annotationData.annotations))

\* C21: in every reachable state the hovered index and the selected index
\* are each none (-1) or a valid index into the current document's boxes,
\* also after navigation to an image with fewer boxes.
C21_IndicesInsideDocument ==
    ValidBoxIndex(hoveredBoxIndex) /\ ValidBoxIndex(selectedBoxIndex)

\* C22: in every reachable state in which both a bitmap and an annotation
\* document are present they belong to the same image, the one at
\* currentImageIndex, also while a load of the current image is pending or
\* has failed.
C22_BitmapAndDocumentAgree ==
    (HasImg(imgObj) /\ HasDoc(annotationData)) =>
        /\ imgObj = annotationData.filename
        /\ currentImageIndex >= 0 /\ currentImageIndex < Len(imageList)
        /\ imageList[currentImageIndex + 1].filename = imgObj

\* C23: in every reachable state currentImageIndex is -1 or a valid index
\* into the current imageList, and the loaded annotation document is the one
\* of the entry at that index, also after the list has been reloaded or
\* replaced by another split's while an image is open.
C23_IndexInsideList ==
    /\ currentImageIndex = -1
         \/ (currentImageIndex >= 0 /\ currentImageIndex < Len(imageList))
    /\ HasDoc(annotationData) => CurrentFile = annotationData.filename

\* C24: in every reachable state the identity-edit overlay is open if and
\* only if a box is selected; no operation closes the overlay while leaving a
\* box selected, and none selects a box without opening the overlay.
C24_OverlayIffSelected ==
    (inputBoxDisplay = "block") <=> (selectedBoxIndex # -1)

\* C25: a pointer-down selects box i only if box i is the top-most box that
\* contains the pointer's position under the current camera, also when the
\* keyboard has panned, zoomed or fitted the view or navigated since the last
\* pointer move; a pointer-down with no hovered box starts a drag, clears the
\* selection and selects nothing.
C25_PressSelectsBoxUnderPointer ==
    [][\A p \in Points :
          (MouseDown(p) /\ ~OverOverlay(p)) =>
              IF hoveredBoxIndex # -1
              THEN /\ selectedBoxIndex' \in BoxesUnder(p)
                   /\ \A k \in BoxesUnder(p) : k <= selectedBoxIndex'
              ELSE /\ isDragging'
                   /\ selectedBoxIndex' = -1
                   /\ inputBoxDisplay' = "none"]_vars

\* C26: once every key that was pressed has been released, the key map
\* records no key as held and a frame tick applies no pan, whatever the order
\* of the presses and releases of letters, Shift and Control was.
C26_AllReleasedMeansNoPan ==
    held = {} =>
        /\ keysPressed = {}
        /\ PanDx(keysPressed) = 0 /\ PanDy(keysPressed) = 0

\* C27: pressing Ctrl+S triggers a save and does not move the camera: while
\* Control and S are held for the shortcut no frame tick changes the offset.
C27_SaveShortcutDoesNotPan ==
    [][/\ KeySave("s") => (saves' # saves /\ UNCHANGED <<scale, offsetX, offsetY>>)
       /\ (Tick /\ held = {"Control", "s"}) => UNCHANGED <<scale, offsetX, offsetY>>]_vars

\* C28: cycling through the boxes with Tab or Shift+Tab without typing leaves
\* the document unchanged: for a document whose boxes are labeled exactly when
\* they have an identity, the identities being trimmed, every Tab press, in
\* the page or in the field, leaves every box with the identity and status it
\* had.
C28_CyclingKeepsDocument ==
    [][TabStep => annotationData'.annotations = annotationData.annotations]_vars
====
